---- MODULE Spec2Model ----
(***************************************************************************)
(* pdf_craft: the PDF patcher (src/app/api/edit-pdf/route.ts and           *)
(* src/lib/pdfLibSave.ts), the two text-editor components' extraction      *)
(* effects and block editing (src/components/PdfTextEditor.tsx and         *)
(* PdfTextEditorClean), and the page's handleSave (src/app/page.tsx).      *)
(*                                                                         *)
(* Numbers that the code computes in floating point are modelled as exact  *)
(* rationals <<numerator, denominator>> in lowest terms.                   *)
(***************************************************************************)
EXTENDS Integers, Sequences, FiniteSets, TLC

VARIABLES
  \* ---- patch operation (one request) ----
  patcher,      \* which patch entry point handles the request
  req,          \* the patch request
  pc,           \* position of the patch handler
  idx,          \* index of the next block of the per-block loop
  ops,          \* draw operations performed on the page, in order
  fontCache,    \* fontCache Map of POST: font key -> embedded font
  embedded,     \* names passed to pdfDoc.embedFont that succeeded, in order
  errorLog,     \* blocks logged by console.error('Error drawing text:', ...)
  result        \* the response / return value of the patch operation

VARIABLES
  \* ---- a text-editor component and the props its parent passes ----
  editor,         \* the mounted component: PdfTextEditor or PdfTextEditorClean
  pdfFile,        \* prop pdfFile (state of the page)
  currentPage,    \* prop currentPage (state of the page)
  effectGen,      \* runs of the extraction effect so far; 0 before mount
  cancelled,      \* effect runs whose isCancelled flag is set
  resizePending,  \* the debounce timer of handleResize is armed
  layout,         \* how often the window has been resized
  passes,         \* extraction passes in start order
  textElements,   \* the editor's block list
  isExtracting,   \* the extracting flag
  textChangedRef, \* textChangedRef.current of PdfTextEditor
  timers,         \* pending setTimeout callbacks that call onTextChange
  dom,            \* the page the rendered react-pdf page / text layer shows
  editedTexts,    \* the page's editedTexts, set by onTextChange
  applied,        \* history: the last pass result applied to the block list
  extracted,      \* history: the block list as the last applied pass set it
  lastCall,       \* history: arguments of the last handleTextChange call
  edits           \* history: number of handleTextChange calls

VARIABLES
  \* ---- handleSave of the page (src/app/page.tsx) ----
  pdfDoc,         \* the loaded pdf-lib document (mutable), or not loaded
  editMode,       \* the edit-mode flag
  canvasInstance, \* the fabric canvas, or none
  savePc,         \* where handleSave stands
  saveBranch,     \* history: the branch the running / last save took
  received,       \* the document the patch service answered with
  docBefore,      \* history: pdfDoc when the save was started
  fileBefore,     \* history: pdfFile when the save was started
  saves,          \* history: number of saves started
  sentReq         \* what the closure of handleSave sends to the patch service

VARIABLES
  \* ---- grouping of extracted runs into blocks ----
  grouper,        \* the function at work: groupTextItems (PdfTextEditorClean)
                  \* or the grouping loop of extractTextPositions
  runs,           \* its input: the extracted runs, in extraction order
  lines,          \* groupTextItems: lines
  paragraphs,     \* groupTextItems: paragraphs
  blocks,         \* the elements it returns
  blockRuns,      \* history: for each returned element, the runs it was made of
  gpc             \* where the function stands

VARIABLES
  \* ---- one extraction pass, step by step ----
  extractor,      \* the component: PdfTextEditor or PdfTextEditorClean
  pageItems,      \* textContent.items of the page
  loadOk,         \* whether pdfjsLib.getDocument / getPage succeed
  xpc,            \* where the pass stands
  attempt,        \* attempts / attempt of the wait loop at work
  delays,         \* history: per wait loop, the delays awaited so far
  seen,           \* what the last query of the text layer found
  exhausted,      \* history: a wait loop ran out of attempts
  path,           \* history: where the positions came from
  itemIdx,        \* the item the per-item loop is at
  pushed,         \* elements (Clean) / textItems (PdfTextEditor) pushed so far
  shown,          \* textElements: the last list given to setTextElements
  hasResult,      \* history: the pass called setTextElements
  extracting,     \* isExtracting
  raised          \* history: what raised into the pass's catch

VARIABLES
  \* ---- one rendered input of the block list ----
  isFocused,      \* per block: isFocused of its EditableTextElement
  value,          \* per block: value of its EditableTextElement
  keystrokes,     \* history: handleChange calls
  commits         \* history: handleBlur calls

VARIABLES
  \* ---- one text item of the page made into a run ----
  normalizer,     \* the component: PdfTextEditor or PdfTextEditorClean
  rawItem,        \* the item of textContent.items
  spanBox,        \* the rendered span of the item's text, measured, if any
  npc,            \* where the iteration stands
  normRun         \* the run pushed for the item

patchVars == <<patcher, req, pc, idx, ops, fontCache, embedded, errorLog, result>>

editorVars ==
  <<editor, pdfFile, currentPage, effectGen, cancelled, resizePending, layout, passes,
    textElements, isExtracting, textChangedRef, timers, dom, editedTexts,
    applied, extracted, lastCall, edits>>

saveVars ==
  <<pdfDoc, editMode, canvasInstance, savePc, saveBranch, received, docBefore,
    fileBefore, saves, sentReq>>

groupVars == <<grouper, runs, lines, paragraphs, blocks, blockRuns, gpc>>

extractVars ==
  <<extractor, pageItems, loadOk, xpc, attempt, delays, seen, exhausted, path,
    itemIdx, pushed, shown, hasResult, extracting, raised>>

inputVars == <<isFocused, value, keystrokes, commits>>

normVars == <<normalizer, rawItem, spanBox, npc, normRun>>

\* the state of the computations inside the components
compVars == <<groupVars, extractVars, inputVars, normVars>>

vars == <<patchVars, editorVars, saveVars, compVars>>

----------------------------------------------------------------------------
(* Bounds of the model                                                     *)

MaxBlocks == 2       \* longest editedTexts list of a request
NumPages == 2        \* page count of the loaded document
MaxPasses == 2       \* extraction passes started in one behaviour
MaxEdits == 2        \* handleTextChange calls in one behaviour
MaxResizes == 1      \* window resizes in one behaviour
MaxSaves == 2        \* saves started in one behaviour
MaxObjects == 2      \* objects on the fabric canvas
MaxRuns == 2         \* runs handed to the grouping
MaxItems == 2        \* text items of the page of an extraction pass
MaxKeys == 3         \* keystrokes in one behaviour
MaxCommits == 2      \* losses of focus in one behaviour
MaxPageRuns == 3     \* runs of a page handed to the grouping

----------------------------------------------------------------------------
(* Exact rational arithmetic                                               *)

RECURSIVE GCD(_, _)
GCD(a, b) == IF b = 0 THEN a ELSE GCD(b, a % b)

Abs(n) == IF n < 0 THEN -n ELSE n

Rat(n, d) ==
  LET g == GCD(Abs(n), Abs(d))
      s == IF d < 0 THEN -1 ELSE 1
  IN  <<(s * n) \div g, (s * d) \div g>>

RInt(n) == <<n, 1>>
RMul(p, q) == Rat(p[1] * q[1], p[2] * q[2])
RDiv(p, q) == Rat(p[1] * q[2], p[2] * q[1])
RSub(p, q) == Rat(p[1] * q[2] - q[1] * p[2], p[2] * q[2])
RAdd(p, q) == Rat(p[1] * q[2] + q[1] * p[2], p[2] * q[2])
RLt(p, q) == p[1] * q[2] < q[1] * p[2]
RMax(p, q) == IF RLt(p, q) THEN q ELSE p
RMin(p, q) == IF RLt(q, p) THEN q ELSE p

----------------------------------------------------------------------------
(* Strings are sequences of characters, so that trim() is computed.        *)

IsSpace(c) == c \in {" ", "\n", "\t"}

RECURSIVE TrimStart(_)
TrimStart(s) ==
  IF s = <<>> THEN <<>>
  ELSE IF IsSpace(Head(s)) THEN TrimStart(Tail(s)) ELSE s

RECURSIVE TrimEnd(_)
TrimEnd(s) ==
  IF s = <<>> THEN <<>>
  ELSE IF IsSpace(s[Len(s)]) THEN TrimEnd(SubSeq(s, 1, Len(s) - 1)) ELSE s

\* String.prototype.trim
Trim(s) == TrimEnd(TrimStart(s))

\* mutant: the emptiness test without trim()
IsBlankText_NoTrim(t) == t = <<>>

\* !textItem.text.trim(): the text counts as deleted
IsBlankText(t) == Trim(t) = <<>>

----------------------------------------------------------------------------
(* Patch requests                                                          *)

\* The native size of the document's pages (page.getSize()).
PageSize == [width |-> 612, height |-> 792]

\* Block texts a request may carry; a block may also lack the text field.
Texts == { <<>>, <<" ">>, <<"H", "i">> }

OriginalTextOfRequest == <<"H", "i">>

\* Geometry (viewport coordinates) and font of a block; the first is the
\* spec's round-trip example (x=72, y=100, fontSize=12).
Shapes ==
  { [x |-> 72, y |-> 100, width |-> 60, height |-> 15, fontSize |-> 12,
     fontFamily |-> "Arial", fontWeight |-> "normal", fontStyle |-> "normal"],
    [x |-> 60, y |-> 90, width |-> 90, height |-> 20, fontSize |-> 9,
     fontFamily |-> "Times New Roman", fontWeight |-> "bold", fontStyle |-> "italic"] }

MkBlock(g, h, t) ==
  [x |-> g.x, y |-> g.y, width |-> g.width, height |-> g.height,
   fontSize |-> g.fontSize, fontFamily |-> g.fontFamily,
   fontWeight |-> g.fontWeight, fontStyle |-> g.fontStyle,
   originalText |-> OriginalTextOfRequest, pageHeight |-> PageSize.height,
   hasText |-> h, text |-> t]

\* EditedTextItem (route.ts) / TextElement (pdfLibSave.ts); hasText = FALSE
\* is a block whose JSON has no text field (text is undefined).
Blocks ==
  { MkBlock(g, TRUE, t) : g \in Shapes, t \in Texts }
  \cup { MkBlock(g, FALSE, <<>>) : g \in Shapes }

BlockLists == UNION { [1..n -> Blocks] : n \in 0..MaxBlocks }

\* pdfPageDimensions of the request; present = FALSE when the request omits it.
Dims ==
  { [present |-> FALSE, width |-> 0, height |-> 0],
    [present |-> TRUE, width |-> 918, height |-> 1188],
    [present |-> TRUE, width |-> 306, height |-> 0] }   \* no height given

\* EditPDFRequest; for saveEditedPDFWithPdfLib the arguments
\* (originalPdfFile, editedTexts, pageNumber).
Requests ==
  [pdfData : {"missing", "corrupt", "ok"},
   pageNumber : 0..(NumPages + 1),
   editedTexts : BlockLists,
   pdfPageDimensions : Dims]

Patchers == {"POST", "saveEditedPDFWithPdfLib"}

----------------------------------------------------------------------------
(* Draw operations and responses                                           *)

Zero == <<0, 1>>

\* page.drawRectangle({x, y, width, height, color: rgb(1,1,1)})
RectOp(k, x, y, w, h) ==
  [kind |-> "rect", blk |-> k, x |-> x, y |-> y, width |-> w, height |-> h,
   text |-> <<>>, size |-> Zero, font |-> "none", color |-> "white"]

\* page.drawText(text, {x, y, size, font, color: rgb(0,0,0)})
TextOp(k, t, x, y, size, font) ==
  [kind |-> "text", blk |-> k, x |-> x, y |-> y, width |-> Zero, height |-> Zero,
   text |-> t, size |-> size, font |-> font, color |-> "black"]

NoResult ==
  [status |-> "none", code |-> 0, details |-> "none", page |-> 0, ops |-> <<>>]

\* NextResponse.json({ error }, { status: code }) / a rejected promise
\* carrying `details`, the message of what raised
ErrorResult(code, details) ==
  [status |-> "error", code |-> code, details |-> details, page |-> 0, ops |-> <<>>]

\* NextResponse.json({ success: true, pdfData }) / the returned bytes: the
\* serialized document is the original plus the operations drawn on `page`.
SuccessResult(page, drawn) ==
  [status |-> "success", code |-> 200, details |-> "none", page |-> page,
   ops |-> drawn]

----------------------------------------------------------------------------
(* POST of src/app/api/edit-pdf/route.ts                                    *)

\* const viewportScale = 1.5
viewportScale == <<3, 2>>

pdfWidth == RInt(PageSize.width)
pdfHeight == RInt(PageSize.height)

\* pdfPageDimensions?.width || (pdfWidth * viewportScale)
viewportWidth(r) ==
  IF r.pdfPageDimensions.present /\ r.pdfPageDimensions.width # 0
  THEN RInt(r.pdfPageDimensions.width)
  ELSE RMul(pdfWidth, viewportScale)

\* pdfPageDimensions?.height || (pdfHeight * viewportScale)
viewportHeight(r) ==
  IF r.pdfPageDimensions.present /\ r.pdfPageDimensions.height # 0
  THEN RInt(r.pdfPageDimensions.height)
  ELSE RMul(pdfHeight, viewportScale)

scaleX(r) == RDiv(pdfWidth, viewportWidth(r))
scaleY(r) == RDiv(pdfHeight, viewportHeight(r))

\* mutant: the cover placed with the font size where the height belongs
CoverRect_FontSizeForHeight(r, k) ==
  LET t == r.editedTexts[k]
  IN  RectOp(k,
             RMul(RInt(t.x), scaleX(r)),
             RSub(RSub(pdfHeight, RMul(RInt(t.y), scaleY(r))),
                  RMul(RInt(t.fontSize), scaleY(r))),
             RMul(RInt(t.width), scaleX(r)),
             RMul(RInt(t.height), scaleY(r)))

\* The cover rectangle of a block (both branches of the loop compute the same).
CoverRect(r, k) ==
  LET t == r.editedTexts[k]
  IN  RectOp(k,
             RMul(RInt(t.x), scaleX(r)),
             RSub(RSub(pdfHeight, RMul(RInt(t.y), scaleY(r))),
                  RMul(RInt(t.height), scaleY(r))),
             RMul(RInt(t.width), scaleX(r)),
             RMul(RInt(t.height), scaleY(r)))

\* mutant: the font size scaled by the horizontal factor
pdfFontSize_ScaleX(r, k) == RMul(RInt(r.editedTexts[k].fontSize), scaleX(r))

\* pdfFontSize = textItem.fontSize * scaleY
pdfFontSize(r, k) == RMul(RInt(r.editedTexts[k].fontSize), scaleY(r))

\* page.drawText(textItem.text, {x: pdfX, y: pdfY, size: pdfFontSize, font})
DrawnText(r, k, font) ==
  LET t == r.editedTexts[k]
  IN  TextOp(k, t.text,
             RMul(RInt(t.x), scaleX(r)),
             RSub(RSub(pdfHeight, RMul(RInt(t.y), scaleY(r))), pdfFontSize(r, k)),
             pdfFontSize(r, k),
             font)

\* The needles fontFamily.toLowerCase().includes(...) finds in each family.
FamilyIncludes ==
  [f \in {"Arial", "Times New Roman", "Courier New", "sans-serif", "monospace"} |->
     CASE f = "Arial" -> {}
       [] f = "Times New Roman" -> {"times"}
       [] f = "Courier New" -> {"courier"}
       [] f = "sans-serif" -> {"serif"}
       [] f = "monospace" -> {"mono"}]

\* The standard font getOrEmbedFont passes to pdfDoc.embedFont.
StandardFont(fontFamily, fontWeight, fontStyle) ==
  IF FamilyIncludes[fontFamily] \cap {"times", "serif"} # {}
  THEN IF fontStyle = "italic"
       THEN (IF fontWeight = "bold" THEN "Times-BoldItalic" ELSE "Times-Italic")
       ELSE (IF fontWeight = "bold" THEN "Times-Bold" ELSE "Times-Roman")
  ELSE IF FamilyIncludes[fontFamily] \cap {"courier", "mono"} # {}
  THEN IF fontStyle = "italic"
       THEN (IF fontWeight = "bold" THEN "Courier-BoldOblique" ELSE "Courier-Oblique")
       ELSE (IF fontWeight = "bold" THEN "Courier-Bold" ELSE "Courier")
  ELSE IF fontStyle = "italic"
       THEN (IF fontWeight = "bold" THEN "Helvetica-BoldOblique" ELSE "Helvetica-Oblique")
       ELSE (IF fontWeight = "bold" THEN "Helvetica-Bold" ELSE "Helvetica")

\* const fontKey = `${fontFamily}-${fontWeight}-${fontStyle}`
FontKey(fontFamily, fontWeight, fontStyle) ==
  fontFamily \o "-" \o fontWeight \o "-" \o fontStyle

\* What the embedding service does when getOrEmbedFont calls it:
\* "ok": embedFont succeeds; "fallback": the first embedFont raises and
\* embedFont('Helvetica') succeeds; "throw": both raise.
EmbedOutcomes == {"ok", "fallback", "throw"}

\* a getOrEmbedFont that never looks into the cache
getOrEmbedFont_NoCache(cache, calls, t, e) ==
  LET key == FontKey(t.fontFamily, t.fontWeight, t.fontStyle)
      std == StandardFont(t.fontFamily, t.fontWeight, t.fontStyle)
  IN  CASE e = "ok" ->
             [threw |-> FALSE, font |-> std,
              cache |-> (key :> std) @@ cache, calls |-> Append(calls, std)]
        [] e = "fallback" ->
             [threw |-> FALSE, font |-> "Helvetica",
              cache |-> (key :> "Helvetica") @@ cache,
              calls |-> Append(calls, "Helvetica")]
        [] e = "throw" ->
             [threw |-> TRUE, font |-> "none", cache |-> cache, calls |-> calls]

\* getOrEmbedFont: the font returned (or threw), the cache and the embedding
\* calls afterwards.
getOrEmbedFont(cache, calls, t, e) ==
  LET key == FontKey(t.fontFamily, t.fontWeight, t.fontStyle)
      std == StandardFont(t.fontFamily, t.fontWeight, t.fontStyle)
  IN  IF key \in DOMAIN cache
      THEN [threw |-> FALSE, font |-> cache[key], cache |-> cache, calls |-> calls]
      ELSE CASE e = "ok" ->
                  [threw |-> FALSE, font |-> std,
                   cache |-> cache @@ (key :> std), calls |-> Append(calls, std)]
             [] e = "fallback" ->
                  [threw |-> FALSE, font |-> "Helvetica",
                   cache |-> cache @@ (key :> "Helvetica"),
                   calls |-> Append(calls, "Helvetica")]
             [] e = "throw" ->
                  [threw |-> TRUE, font |-> "none", cache |-> cache, calls |-> calls]

----------------------------------------------------------------------------
(* The request handler, one action per step                                *)

InBlockLoop == pc = "loop" /\ idx <= Len(req.editedTexts)

\* if (!pdfData || !editedTexts || editedTexts.length === 0) return 400
POST_Validate ==
  /\ patcher = "POST" /\ pc = "start"
  /\ IF req.pdfData = "missing" \/ Len(req.editedTexts) = 0
     THEN pc' = "done" /\ result' = ErrorResult(400, "Missing required data")
     ELSE pc' = "load" /\ UNCHANGED result
  /\ UNCHANGED <<patcher, req, idx, ops, fontCache, embedded, errorLog, editorVars, saveVars, compVars>>

\* atob / PDFDocument.load raise on undecodable bytes: the outer catch, 500
POST_Load ==
  /\ patcher = "POST" /\ pc = "load"
  /\ IF req.pdfData = "corrupt"
     THEN pc' = "done" /\ result' = ErrorResult(500, "load")
     ELSE pc' = "page" /\ UNCHANGED result
  /\ UNCHANGED <<patcher, req, idx, ops, fontCache, embedded, errorLog, editorVars, saveVars, compVars>>

\* if (pageNumber < 1 || pageNumber > pages.length) return 400
POST_PageCheck ==
  /\ patcher = "POST" /\ pc = "page"
  /\ IF req.pageNumber < 1 \/ req.pageNumber > NumPages
     THEN pc' = "done" /\ result' = ErrorResult(400, "Invalid page number")
     ELSE pc' = "loop" /\ UNCHANGED result
  /\ UNCHANGED <<patcher, req, idx, ops, fontCache, embedded, errorLog, editorVars, saveVars, compVars>>

\* textItem.text is undefined: textItem.text.trim() raises a TypeError outside
\* the per-block try, so the outer catch answers 500.
POST_TrimThrows ==
  /\ patcher = "POST" /\ InBlockLoop
  /\ ~req.editedTexts[idx].hasText
  /\ pc' = "done" /\ result' = ErrorResult(500, "TypeError")
  /\ UNCHANGED <<patcher, req, idx, ops, fontCache, embedded, errorLog, editorVars, saveVars, compVars>>

\* if (!textItem.text.trim()) { page.drawRectangle(...); continue; }
POST_CoverOnly ==
  /\ patcher = "POST" /\ InBlockLoop
  /\ req.editedTexts[idx].hasText
  /\ IsBlankText(req.editedTexts[idx].text)
  /\ ops' = Append(ops, CoverRect(req, idx))
  /\ idx' = idx + 1
  /\ UNCHANGED <<patcher, req, pc, fontCache, embedded, errorLog, result, editorVars, saveVars, compVars>>

\* page.drawRectangle(cover); try { font = await getOrEmbedFont(...);
\* page.drawText(...) } with the embedding and drawText succeeding
POST_DrawBlock ==
  /\ patcher = "POST" /\ InBlockLoop
  /\ req.editedTexts[idx].hasText
  /\ ~IsBlankText(req.editedTexts[idx].text)
  /\ \E e \in {"ok", "fallback"} :
       LET g == getOrEmbedFont(fontCache, embedded, req.editedTexts[idx], e)
       IN  /\ ops' = ops \o <<CoverRect(req, idx), DrawnText(req, idx, g.font)>>
           /\ fontCache' = g.cache
           /\ embedded' = g.calls
  /\ idx' = idx + 1
  /\ UNCHANGED <<patcher, req, pc, errorLog, result, editorVars, saveVars, compVars>>

\* The same with getOrEmbedFont or page.drawText raising: catch (error) {
\* console.error(...) } and the loop continues with the next block.
POST_DrawBlockFails ==
  /\ patcher = "POST" /\ InBlockLoop
  /\ req.editedTexts[idx].hasText
  /\ ~IsBlankText(req.editedTexts[idx].text)
  /\ \E e \in EmbedOutcomes :
       LET g == getOrEmbedFont(fontCache, embedded, req.editedTexts[idx], e)
       IN  /\ ops' = Append(ops, CoverRect(req, idx))
           /\ fontCache' = g.cache
           /\ embedded' = g.calls
  /\ errorLog' = Append(errorLog, idx)
  /\ idx' = idx + 1
  /\ UNCHANGED <<patcher, req, pc, result, editorVars, saveVars, compVars>>

\* const savedBytes = await pdfDoc.save(); return { success: true, pdfData }
\* or, when save raises, the outer catch: 500
POST_Save ==
  /\ patcher = "POST" /\ pc = "loop" /\ idx > Len(req.editedTexts)
  /\ \E saved \in BOOLEAN :
       result' = IF saved THEN SuccessResult(req.pageNumber, ops)
                 ELSE ErrorResult(500, "save")
  /\ pc' = "done"
  /\ UNCHANGED <<patcher, req, idx, ops, fontCache, embedded, errorLog, editorVars, saveVars, compVars>>

----------------------------------------------------------------------------
(* saveEditedPDFWithPdfLib of src/lib/pdfLibSave.ts                        *)

\* the three fonts embedded before the loop
LibFonts == <<"Helvetica", "Helvetica-Bold", "Helvetica-Oblique">>

\* let fontToUse = font; if (bold && italic) boldFont; else if (bold) ...
fontToUse(t) ==
  IF t.fontWeight = "bold" /\ t.fontStyle = "italic" THEN "Helvetica-Bold"
  ELSE IF t.fontWeight = "bold" THEN "Helvetica-Bold"
  ELSE IF t.fontStyle = "italic" THEN "Helvetica-Oblique"
  ELSE "Helvetica"

\* page.drawRectangle({x, y: pageHeight - y - height, width, height})
LibCoverRect(r, k) ==
  LET t == r.editedTexts[k]
  IN  RectOp(k, RInt(t.x), RInt(t.pageHeight - t.y - t.height),
             RInt(t.width), RInt(t.height))

\* page.drawText(text, {x, y: pageHeight - y - fontSize, size: fontSize, font})
LibDrawnText(r, k) ==
  LET t == r.editedTexts[k]
  IN  TextOp(k, t.text, RInt(t.x), RInt(t.pageHeight - t.y - t.fontSize),
             RInt(t.fontSize), fontToUse(t))

\* const page = pages[pageNumber - 1] is undefined outside the page range
LibPageDefined(r) == r.pageNumber - 1 \in 0..(NumPages - 1)

\* PDFDocument.load raises on bytes that are no document (catch: rethrown);
\* otherwise the page is picked, unchecked, and the fonts are embedded.
Lib_Load ==
  /\ patcher = "saveEditedPDFWithPdfLib" /\ pc = "start"
  /\ IF req.pdfData # "ok"
     THEN pc' = "done" /\ result' = ErrorResult(0, "load") /\ UNCHANGED embedded
     ELSE pc' = "loop" /\ embedded' = LibFonts /\ UNCHANGED result
  /\ UNCHANGED <<patcher, req, idx, ops, fontCache, errorLog, editorVars, saveVars, compVars>>

\* one iteration of the loop: cover rectangle, then the text
Lib_DrawBlock ==
  /\ patcher = "saveEditedPDFWithPdfLib" /\ InBlockLoop
  /\ LibPageDefined(req)
  /\ req.editedTexts[idx].hasText
  /\ ops' = ops \o <<LibCoverRect(req, idx), LibDrawnText(req, idx)>>
  /\ idx' = idx + 1
  /\ UNCHANGED <<patcher, req, pc, fontCache, embedded, errorLog, result, editorVars, saveVars, compVars>>

\* an iteration that raises: page is undefined (TypeError at drawRectangle), or
\* drawText raises (text undefined, or a glyph the font cannot encode); the
\* function's catch rethrows.
Lib_BlockThrows ==
  /\ patcher = "saveEditedPDFWithPdfLib" /\ InBlockLoop
  /\ ops' = IF LibPageDefined(req) THEN Append(ops, LibCoverRect(req, idx)) ELSE ops
  /\ pc' = "done"
  /\ result' = ErrorResult(0, IF LibPageDefined(req) THEN "drawText" ELSE "TypeError")
  /\ UNCHANGED <<patcher, req, idx, fontCache, embedded, errorLog, editorVars, saveVars, compVars>>

\* const pdfBytesOut = await pdfDoc.save(); return pdfBytesOut
Lib_Save ==
  /\ patcher = "saveEditedPDFWithPdfLib" /\ pc = "loop"
  /\ idx > Len(req.editedTexts)
  /\ \E saved \in BOOLEAN :
       result' = IF saved THEN SuccessResult(req.pageNumber, ops)
                 ELSE ErrorResult(0, "save")
  /\ pc' = "done"
  /\ UNCHANGED <<patcher, req, idx, ops, fontCache, embedded, errorLog, editorVars, saveVars, compVars>>

----------------------------------------------------------------------------
(* Idle values: a component that is not part of a specification keeps them *)

NoDom == [file |-> "none", page |-> 0]

NoCall == [made |-> FALSE, id |-> <<>>, text |-> <<>>]

NoApplied ==
  [pass |-> 0, file |-> "none", page |-> 0, reqFile |-> "none", reqPage |-> 0,
   atFile |-> "none", atPage |-> 0, superseded |-> FALSE]

Editors == {"PdfTextEditor", "PdfTextEditorClean"}

NoDoc == [loaded |-> FALSE, pages |-> <<>>]

NoCanvas == [present |-> FALSE, objects |-> <<>>]

\* no request has been issued by handleSave
NoRequest == [made |-> FALSE, pageNumber |-> 0, editedTexts |-> <<>>]

\* the page's own state when the page is not part of a specification
PageIdle ==
  /\ pdfFile = "A"
  /\ currentPage = 1
  /\ editedTexts = <<>>

SaveIdle ==
  /\ sentReq = NoRequest
  /\ pdfDoc = NoDoc
  /\ editMode = FALSE
  /\ canvasInstance = NoCanvas
  /\ savePc = "idle"
  /\ saveBranch = "none"
  /\ received = NoDoc
  /\ docBefore = NoDoc
  /\ fileBefore = "none"
  /\ saves = 0

GroupIdle ==
  /\ grouper = "groupTextItems"
  /\ runs = <<>>
  /\ lines = <<>>
  /\ paragraphs = <<>>
  /\ blocks = <<>>
  /\ blockRuns = <<>>
  /\ gpc = "idle"

NoDelays == [page |-> <<>>, reference |-> <<>>, layer |-> <<>>]

ExtractIdle ==
  /\ extractor = "PdfTextEditor"
  /\ pageItems = <<>>
  /\ loadOk = TRUE
  /\ xpc = "idle"
  /\ attempt = 0
  /\ delays = NoDelays
  /\ seen = "none"
  /\ exhausted = FALSE
  /\ path = "none"
  /\ itemIdx = 1
  /\ pushed = <<>>
  /\ shown = <<>>
  /\ hasResult = FALSE
  /\ extracting = TRUE
  /\ raised = "none"

InputIdle ==
  /\ isFocused = <<>>
  /\ value = <<>>
  /\ keystrokes = 0
  /\ commits = 0

NoItem == [str |-> <<>>, present |-> FALSE, a |-> 0, d |-> 0, e |-> 0, f |-> 0,
           width |-> 0, height |-> 0]

NoSpan == [present |-> FALSE, left |-> 0, top |-> 0, width |-> 0, height |-> 0,
           fontSize |-> 0]

NoRun == [from |-> "none", x |-> Zero, y |-> Zero, width |-> Zero,
          height |-> Zero, fontSize |-> Zero]

NormIdle ==
  /\ normalizer = "PdfTextEditor"
  /\ rawItem = NoItem
  /\ spanBox = NoSpan
  /\ npc = "idle"
  /\ normRun = NoRun

CompIdle == GroupIdle /\ ExtractIdle /\ InputIdle /\ NormIdle

EditorIdle ==
  /\ editor = "PdfTextEditor"
  /\ effectGen = 0
  /\ layout = 0
  /\ cancelled = {}
  /\ resizePending = FALSE
  /\ passes = <<>>
  /\ textElements = <<>>
  /\ isExtracting = TRUE
  /\ textChangedRef = FALSE
  /\ timers = {}
  /\ dom = NoDom
  /\ applied = NoApplied
  /\ extracted = <<>>
  /\ lastCall = NoCall
  /\ edits = 0

PatchIdle ==
  /\ patcher = "POST"
  /\ req = [pdfData |-> "missing", pageNumber |-> 0, editedTexts |-> <<>>,
            pdfPageDimensions |-> [present |-> FALSE, width |-> 0, height |-> 0]]
  /\ pc = "idle"
  /\ idx = 1
  /\ ops = <<>>
  /\ fontCache = <<>>
  /\ embedded = <<>>
  /\ errorLog = <<>>
  /\ result = NoResult

----------------------------------------------------------------------------
(* The patch operation as a specification                                  *)

InitPatch ==
  /\ patcher \in Patchers
  /\ req \in Requests
  /\ patcher = "saveEditedPDFWithPdfLib" =>
       /\ ~req.pdfPageDimensions.present
       /\ req.pdfData # "missing"
  /\ pc = "start"
  /\ idx = 1
  /\ ops = <<>>
  /\ fontCache = <<>>
  /\ embedded = <<>>
  /\ errorLog = <<>>
  /\ result = NoResult
  /\ EditorIdle
  /\ PageIdle
  /\ SaveIdle
  /\ CompIdle

NextPatch ==
  \/ POST_Validate
  \/ POST_Load
  \/ POST_PageCheck
  \/ POST_TrimThrows
  \/ POST_CoverOnly
  \/ POST_DrawBlock
  \/ POST_DrawBlockFails
  \/ POST_Save
  \/ Lib_Load
  \/ Lib_DrawBlock
  \/ Lib_BlockThrows
  \/ Lib_Save

SpecPatch == InitPatch /\ [][NextPatch]_vars

----------------------------------------------------------------------------
(* Claims about the patch operation                                        *)

\* the operations of `drawn` of the given kind that belong to block k
OpsOf(drawn, kind, k) ==
  { i \in 1..Len(drawn) : drawn[i].kind = kind /\ drawn[i].blk = k }

\* The claims' scale factors: native size over viewport size, the viewport
\* size taken from the request, or native * 1.5 where the request gives none
\* (saveEditedPDFWithPdfLib takes no viewport: its blocks are in page units).
ClaimViewport(r) ==
  [width  |-> IF r.pdfPageDimensions.present /\ r.pdfPageDimensions.width # 0
              THEN <<r.pdfPageDimensions.width, 1>>
              ELSE <<3 * PageSize.width, 2>>,
   height |-> IF r.pdfPageDimensions.present /\ r.pdfPageDimensions.height # 0
              THEN <<r.pdfPageDimensions.height, 1>>
              ELSE <<3 * PageSize.height, 2>>]

ClaimScaleX(r) ==
  IF patcher = "POST" THEN RDiv(<<PageSize.width, 1>>, ClaimViewport(r).width)
  ELSE <<1, 1>>

ClaimScaleY(r) ==
  IF patcher = "POST" THEN RDiv(<<PageSize.height, 1>>, ClaimViewport(r).height)
  ELSE <<1, 1>>

PatchSucceeded == pc = "done" /\ result.status = "success"

\* C3: in every patch operation that returns patched bytes, every block of the
\* request, whatever its text and originalText, got exactly one opaque (white)
\* cover rectangle on the requested page, with lower-left corner
\* (x*scaleX, nativeHeight - y*scaleY - height*scaleY) and size
\* (width*scaleX, height*scaleY).
C3_CoverForEveryBlock ==
  PatchSucceeded =>
    /\ result.page = req.pageNumber
    /\ \A k \in 1..Len(req.editedTexts) :
         LET t == req.editedTexts[k]
             rects == OpsOf(result.ops, "rect", k)
         IN  /\ Cardinality(rects) = 1
             /\ \A i \in rects :
                  /\ result.ops[i].color = "white"
                  /\ result.ops[i].x = RMul(<<t.x, 1>>, ClaimScaleX(req))
                  /\ result.ops[i].y =
                       RSub(RSub(<<PageSize.height, 1>>,
                                 RMul(<<t.y, 1>>, ClaimScaleY(req))),
                            RMul(<<t.height, 1>>, ClaimScaleY(req)))
                  /\ result.ops[i].width = RMul(<<t.width, 1>>, ClaimScaleX(req))
                  /\ result.ops[i].height = RMul(<<t.height, 1>>, ClaimScaleY(req))

\* C3 witness: POST returned patched bytes for a request with a block whose
\* text equals its originalText, a block whose text is empty, and a viewport
\* that is not the default.
C3_Witness ==
  /\ PatchSucceeded /\ patcher = "POST"
  /\ req.pdfPageDimensions.present
  /\ \E j, k \in 1..Len(req.editedTexts) :
       /\ req.editedTexts[j].text = req.editedTexts[j].originalText
       /\ req.editedTexts[k].text = <<>>

\* C4 as stated: of a patched request, a block whose current text is the empty
\* string gets no text drawn, and every block whose current text is non-empty
\* gets that text drawn exactly once.
C4_Original ==
  (PatchSucceeded /\ patcher = "POST") =>
    \A k \in 1..Len(req.editedTexts) :
      LET t == req.editedTexts[k]
          texts == OpsOf(result.ops, "text", k)
      IN  /\ t.text = <<>> => texts = {}
          /\ t.text # <<>> =>
               /\ Cardinality(texts) = 1
               /\ \A i \in texts : result.ops[i].text = t.text

\* C4 amended: of a patched request, a block whose current text is empty or
\* only whitespace gets no text drawn, a block whose drawing raised (it is in
\* the error log) gets no text drawn, and every other block gets its text,
\* untrimmed, drawn exactly once.
C4_TextDrawnIffNotBlank ==
  (PatchSucceeded /\ patcher = "POST") =>
    \A k \in 1..Len(req.editedTexts) :
      LET t == req.editedTexts[k]
          texts == OpsOf(result.ops, "text", k)
          skipped == \E i \in 1..Len(errorLog) : errorLog[i] = k
      IN  IF Trim(t.text) = <<>> \/ skipped
          THEN texts = {}
          ELSE /\ Cardinality(texts) = 1
               /\ \A i \in texts : result.ops[i].text = t.text

\* C4 witness: a patched request with a whitespace-only block (covered, no
\* text) and a block whose text was drawn.
C4_Witness ==
  /\ PatchSucceeded /\ patcher = "POST"
  /\ \E j, k \in 1..Len(req.editedTexts) :
       /\ req.editedTexts[j].text = <<" ">>
       /\ OpsOf(result.ops, "rect", j) # {}
       /\ OpsOf(result.ops, "text", k) # {}

\* C5: every text POST draws is placed at native
\* (x*scaleX, nativeHeight - y*scaleY - fontSize*scaleY) with point size
\* fontSize*scaleY; and the block x=72, y=100, fontSize=12 on the 612x792 page,
\* with viewport 918x1188 or none given, is drawn at x=48, size 8,
\* y = 792 - 100*(2/3) - 8 = 2152/3.
C5_TextPlacement ==
  patcher = "POST" =>
    \A i \in 1..Len(ops) :
      ops[i].kind = "text" =>
        LET t == req.editedTexts[ops[i].blk]
        IN  /\ ops[i].x = RMul(<<t.x, 1>>, ClaimScaleX(req))
            /\ ops[i].size = RMul(<<t.fontSize, 1>>, ClaimScaleY(req))
            /\ ops[i].y =
                 RSub(RSub(<<PageSize.height, 1>>, RMul(<<t.y, 1>>, ClaimScaleY(req))),
                      RMul(<<t.fontSize, 1>>, ClaimScaleY(req)))
            /\ ( /\ t.x = 72 /\ t.y = 100 /\ t.fontSize = 12
                 /\ (~req.pdfPageDimensions.present
                     \/ req.pdfPageDimensions.height = 1188) )
               => /\ ops[i].x = <<48, 1>>
                  /\ ops[i].size = <<8, 1>>
                  /\ ops[i].y = <<2152, 3>>

\* C5 witness: the example block drawn for a request that gives no viewport,
\* and a second text drawn in the same request.
C5_Witness ==
  /\ PatchSucceeded /\ patcher = "POST"
  /\ ~req.pdfPageDimensions.present
  /\ \E i, j \in 1..Len(ops) :
       /\ i # j
       /\ ops[i].kind = "text" /\ ops[j].kind = "text"
       /\ req.editedTexts[ops[i].blk].x = 72

\* the outer catch answered because document loading or serialization raised
LoadOrSaveRaised == result.details \in {"load", "save"}

\* C6 as stated: when the drawing of a block raised, POST still returns
\* success (unless serialization itself raises), the failed block is skipped,
\* and every other block of the request has its cover rectangle and, when it
\* has text to draw, its text.
C6_FailureIsolation ==
  (patcher = "POST" /\ pc = "done" /\ Len(errorLog) > 0 /\ ~LoadOrSaveRaised) =>
    /\ result.status = "success"
    /\ \A k \in 1..Len(req.editedTexts) :
         /\ Cardinality(OpsOf(result.ops, "rect", k)) = 1
         /\ (\E i \in 1..Len(errorLog) : errorLog[i] = k)
              => OpsOf(result.ops, "text", k) = {}
         /\ ( /\ ~(\E i \in 1..Len(errorLog) : errorLog[i] = k)
              /\ req.editedTexts[k].hasText
              /\ Trim(req.editedTexts[k].text) # <<>> )
              => Cardinality(OpsOf(result.ops, "text", k)) = 1

\* C7 as stated: a request whose document bytes load, whose page number is in
\* range and whose document serializes returns success, whatever its block
\* list holds.
C7_FailsOnlyOnLoadOrSave ==
  ( /\ patcher = "POST" /\ pc = "done"
    /\ req.pdfData = "ok"
    /\ req.pageNumber \in 1..NumPages
    /\ ~LoadOrSaveRaised )
  => result.status = "success"

\* C8 as stated: a request with undecodable document bytes or a page number
\* outside 1..page count ends in an error, with nothing drawn and no patched
\* bytes returned.
C8_InputErrorsAbort ==
  ( /\ pc = "done"
    /\ (req.pdfData = "corrupt" \/ req.pageNumber \notin 1..NumPages) )
  => /\ result.status = "error"
     /\ result.ops = <<>>
     /\ ops = <<>>

----------------------------------------------------------------------------
(* The text editors: PdfTextEditor (src/components/PdfTextEditor.tsx) and  *)
(* PdfTextEditorClean (src/unnamed/part_001), with the props of page.tsx   *)

Files == {"A", "B"}

Digit(n) == CASE n = 0 -> "0" [] n = 1 -> "1" [] n = 2 -> "2" [] n = 3 -> "3"
              [] n = 4 -> "4" [] OTHER -> "9"

\* the text of block k of page p of file f, as characters
ExtractedText(f, p, k) == <<f, Digit(p), Digit(k)>>

\* id: `text-${currentPage}-${elements.length}` in PdfTextEditor,
\* `text-group-${groupIdCounter++}` in PdfTextEditorClean
ElementId(ed, p, k) ==
  IF ed = "PdfTextEditor" THEN <<"text", Digit(p), Digit(k)>>
  ELSE <<"text-group", Digit(k)>>

\* one extracted TextElement: text and originalText are the extracted text,
\* the position is relative to the page rectangle measured under layout lay
Element(ed, f, p, k, lay) ==
  [id |-> ElementId(ed, p, k),
   text |-> ExtractedText(f, p, k),
   originalText |-> ExtractedText(f, p, k),
   x |-> 72 - 10 * lay, y |-> 100 + 20 * k, width |-> 60, height |-> 15,
   fontSize |-> 12, fontFamily |-> "Arial",
   fontWeight |-> "normal", fontStyle |-> "normal"]

\* the elements an extraction of page p of file f produces: two blocks
PageBlocks(ed, f, p, lay) == [k \in 1..2 |-> Element(ed, f, p, k - 1, lay)]

\* what reaches setEditedTexts: elements.map(el => ({text, x, y, ...,
\* originalText})), done by PdfTextEditor's notify effect, and for
\* PdfTextEditorClean by the onTextChange callback of the page
NotifyFormat(els) ==
  [k \in DOMAIN els |->
     [text |-> els[k].text, x |-> els[k].x, y |-> els[k].y,
      width |-> els[k].width, height |-> els[k].height,
      fontSize |-> els[k].fontSize, fontFamily |-> els[k].fontFamily,
      fontWeight |-> els[k].fontWeight, fontStyle |-> els[k].fontStyle,
      originalText |-> els[k].originalText]]

\* the texts a user can leave in an input
EditTexts == { <<>>, <<"X">> }

\* a pass of extractTextPositions / extractText, started by effect run g
NewPass(ed, g, f, p) ==
  [effect |-> g, file |-> f, page |-> p,
   stage |-> IF ed = "PdfTextEditor" THEN "load" ELSE "waitLayer",
   layout |-> 0, content |-> NoDom, superseded |-> FALSE]

\* the passes after a new one is started for file f and page p; history: a
\* pass still in flight for the same file and page is marked as superseded
StartPass(ed, g, f, p) ==
  Append([k \in DOMAIN passes |->
            IF passes[k].file = f /\ passes[k].page = p
            THEN [passes[k] EXCEPT !.superseded = TRUE] ELSE passes[k]],
         NewPass(ed, g, f, p))

\* a pass that has returned: nothing of it is read again
EndedPass ==
  [effect |-> 0, file |-> "none", page |-> 0, stage |-> "ended",
   layout |-> 0, content |-> NoDom, superseded |-> FALSE]

\* isCancelled of the closure the pass runs in
IsCancelled(i) == passes[i].effect \in cancelled

Running(i) == passes[i].stage # "ended"

\* the notifications pending after the block list became els: PdfTextEditor's
\* notify effect clears its timeout and sets a new one when the list is not
\* empty and textChangedRef is set; PdfTextEditorClean adds a setTimeout
Scheduled(ed, pending, els) ==
  IF ed = "PdfTextEditor"
  THEN IF Len(els) > 0 THEN {NotifyFormat(els)} ELSE {}
  ELSE pending \cup {NotifyFormat(els)}

\* the effect on [pdfFile, currentPage] runs for file f and page p: the
\* cleanup of the previous run (PdfTextEditor only: isCancelled = true,
\* clearTimeout(resizeTimeout)), then setIsExtracting(true) and a first pass
RunEffect(f, p) ==
  /\ Len(passes) < MaxPasses
  /\ effectGen' = effectGen + 1
  /\ cancelled' = IF editor = "PdfTextEditor" /\ effectGen > 0
                  THEN cancelled \cup {effectGen} ELSE cancelled
  /\ resizePending' = FALSE
  /\ isExtracting' = TRUE
  /\ passes' = StartPass(editor, effectGen + 1, f, p)

\* the component mounts
Mount ==
  /\ pc = "idle" /\ effectGen = 0
  /\ RunEffect(pdfFile, currentPage)
  /\ UNCHANGED <<editor, pdfFile, currentPage, layout, textElements,
                 textChangedRef, timers, dom, editedTexts, applied, extracted,
                 lastCall, edits, patchVars, saveVars, compVars>>

\* setCurrentPage(prev => Math.max(1, prev - 1)) / Math.min(numPages, prev + 1)
ChangePage ==
  /\ pc = "idle" /\ effectGen > 0
  /\ \E p \in {currentPage - 1, currentPage + 1} \cap (1..NumPages) :
       /\ currentPage' = p
       /\ RunEffect(pdfFile, p)
  /\ UNCHANGED <<editor, pdfFile, layout, textElements, textChangedRef, timers,
                 dom, editedTexts, applied, extracted, lastCall, edits,
                 patchVars, saveVars, compVars>>

\* setPdfFile(...) with another file
ChangeFile ==
  /\ pc = "idle" /\ effectGen > 0
  /\ \E f \in Files \ {pdfFile} :
       /\ pdfFile' = f
       /\ RunEffect(f, currentPage)
  /\ UNCHANGED <<editor, currentPage, layout, textElements, textChangedRef,
                 timers, dom, editedTexts, applied, extracted, lastCall, edits,
                 patchVars, saveVars, compVars>>

\* react-pdf finishes rendering the page the props name
DomRender ==
  /\ pc = "idle" /\ effectGen > 0
  /\ dom # [file |-> pdfFile, page |-> currentPage]
  /\ dom' = [file |-> pdfFile, page |-> currentPage]
  /\ UNCHANGED <<editor, pdfFile, currentPage, effectGen, cancelled,
                 resizePending, layout, passes, textElements, isExtracting,
                 textChangedRef, timers, editedTexts, applied, extracted,
                 lastCall, edits, patchVars, saveVars, compVars>>

\* a window resize event: handleResize re-arms the debounce timer
Resize ==
  /\ pc = "idle" /\ effectGen > 0
  /\ editor = "PdfTextEditor"
  /\ layout < MaxResizes
  /\ layout' = layout + 1
  /\ resizePending' = TRUE
  /\ UNCHANGED <<editor, pdfFile, currentPage, effectGen, cancelled, passes,
                 textElements, isExtracting, textChangedRef, timers, dom,
                 editedTexts, applied, extracted, lastCall, edits, patchVars, saveVars, compVars>>

\* the debounce timer fires: if (!isCancelled) { setIsExtracting(true);
\* extractTextPositions(); } in the closure of the current effect run
ResizeFire ==
  /\ pc = "idle" /\ resizePending
  /\ Len(passes) < MaxPasses
  /\ resizePending' = FALSE
  /\ IF effectGen \notin cancelled
     THEN /\ isExtracting' = TRUE
          /\ passes' = StartPass(editor, effectGen, pdfFile, currentPage)
     ELSE UNCHANGED <<isExtracting, passes>>
  /\ UNCHANGED <<editor, pdfFile, currentPage, effectGen, cancelled, layout,
                 textElements, textChangedRef, timers, dom, editedTexts,
                 applied, extracted, lastCall, edits, patchVars, saveVars, compVars>>

\* what stays as it is while a pass moves on without touching the block list
PassFrame ==
  UNCHANGED <<editor, pdfFile, currentPage, effectGen, cancelled,
              resizePending, layout, textElements, textChangedRef, timers, dom,
              editedTexts, applied, extracted, lastCall, edits, patchVars, saveVars, compVars>>

\* setTextElements(elements); setIsExtracting(false); and the notification of
\* the parent: textChangedRef.current = true with the notify effect in
\* PdfTextEditor, setTimeout(() => onTextChangeRef.current(...), 0) in
\* PdfTextEditorClean.  f and p are the file and page els was read from.
ApplyResult(i, els, f, p) ==
  /\ textElements' = els
  /\ isExtracting' = FALSE
  /\ textChangedRef' = IF editor = "PdfTextEditor" THEN TRUE ELSE textChangedRef
  /\ timers' = Scheduled(editor, timers, els)
  /\ extracted' = els
  /\ applied' = [pass |-> i, file |-> f, page |-> p,
                  reqFile |-> passes[i].file, reqPage |-> passes[i].page,
                  atFile |-> pdfFile, atPage |-> currentPage,
                  superseded |-> passes[i].superseded]
  /\ passes' = [passes EXCEPT ![i] = EndedPass]
  /\ UNCHANGED <<editor, pdfFile, currentPage, effectGen, cancelled,
                 resizePending, layout, dom, editedTexts, lastCall, edits,
                 patchVars, saveVars, compVars>>

\* PdfTextEditor: await pdfFile.arrayBuffer(), getDocument, getPage
PTE_Load(i) ==
  /\ editor = "PdfTextEditor" /\ passes[i].stage = "load"
  /\ passes' = [passes EXCEPT ![i].stage = "waitPage"]
  /\ UNCHANGED isExtracting
  /\ PassFrame

\* PdfTextEditor: the loop waiting for .react-pdf__Page found the page and
\* measured its rectangle, and the pass is not cancelled
PTE_PageFound(i) ==
  /\ editor = "PdfTextEditor" /\ passes[i].stage = "waitPage"
  /\ ~IsCancelled(i) /\ dom # NoDom
  /\ passes' = [passes EXCEPT ![i].stage = "waitRef", ![i].layout = layout]
  /\ UNCHANGED isExtracting
  /\ PassFrame

\* PdfTextEditor: if (isCancelled || !pdfPageRect) { setIsExtracting(false);
\* return; }
PTE_GiveUp(i) ==
  /\ editor = "PdfTextEditor" /\ passes[i].stage = "waitPage"
  /\ IsCancelled(i) \/ dom = NoDom
  /\ passes' = [passes EXCEPT ![i] = EndedPass]
  /\ isExtracting' = FALSE
  /\ PassFrame

\* PdfTextEditor: the rest of the pass ran (coordinate reference,
\* getTextContent, grouping) and if (!isCancelled) applies the elements
PTE_Apply(i) ==
  /\ editor = "PdfTextEditor" /\ passes[i].stage = "waitRef"
  /\ ~IsCancelled(i)
  /\ ApplyResult(i, PageBlocks(editor, passes[i].file, passes[i].page,
                               passes[i].layout),
                 passes[i].file, passes[i].page)

\* PdfTextEditor: the same with isCancelled set: the elements are dropped
PTE_Discard(i) ==
  /\ editor = "PdfTextEditor" /\ passes[i].stage = "waitRef"
  /\ IsCancelled(i)
  /\ passes' = [passes EXCEPT ![i] = EndedPass]
  /\ UNCHANGED isExtracting
  /\ PassFrame

\* PdfTextEditorClean: the retry loop found a text layer with spans; the spans
\* of the rendered page are read
Clean_LayerFound(i) ==
  /\ editor = "PdfTextEditorClean" /\ passes[i].stage = "waitLayer"
  /\ dom # NoDom
  /\ passes' = [passes EXCEPT ![i].stage = "spans", ![i].layout = layout,
                              ![i].content = dom]
  /\ UNCHANGED isExtracting
  /\ PassFrame

\* PdfTextEditorClean: no text layer after the retries: extractWithPdfJs()
Clean_LayerTimeout(i) ==
  /\ editor = "PdfTextEditorClean" /\ passes[i].stage = "waitLayer"
  /\ dom = NoDom
  /\ passes' = [passes EXCEPT ![i].stage = "fallback"]
  /\ UNCHANGED isExtracting
  /\ PassFrame

\* PdfTextEditorClean: setTextElements(groupedElements) ... of the DOM path
Clean_Apply(i) ==
  /\ editor = "PdfTextEditorClean" /\ passes[i].stage = "spans"
  /\ ApplyResult(i, PageBlocks(editor, passes[i].content.file,
                               passes[i].content.page, passes[i].layout),
                 passes[i].content.file, passes[i].content.page)

\* PdfTextEditorClean: extractWithPdfJs reads pdfFile and currentPage of the
\* closure and applies the elements
Clean_FallbackApply(i) ==
  /\ editor = "PdfTextEditorClean" /\ passes[i].stage = "fallback"
  /\ ApplyResult(i, PageBlocks(editor, passes[i].file, passes[i].page, 0),
                 passes[i].file, passes[i].page)

\* an await of the pass rejects: catch (error) { setIsExtracting(false) }
PassFails(i) ==
  /\ Running(i)
  /\ passes' = [passes EXCEPT ![i] = EndedPass]
  /\ isExtracting' = FALSE
  /\ PassFrame

\* a handleTextChange that deletes the block when its text is emptied
handleTextChange_DropEmpty(prev, id, text) ==
  IF text = <<>>
  THEN SelectSeq(prev, LAMBDA el : el.id # id)
  ELSE [k \in DOMAIN prev |->
          IF prev[k].id = id THEN [prev[k] EXCEPT !.text = text] ELSE prev[k]]

\* prev.map(el => el.id === id ? { ...el, text } : el)
handleTextChange(prev, id, text) ==
  [k \in DOMAIN prev |->
     IF prev[k].id = id THEN [prev[k] EXCEPT !.text = text] ELSE prev[k]]

\* an input of the rendered block list commits its text: handleTextChange
HandleTextChange ==
  /\ pc = "idle" /\ effectGen > 0
  /\ edits < MaxEdits
  /\ \E k \in DOMAIN textElements, text \in EditTexts :
       LET updated == handleTextChange(textElements, textElements[k].id, text)
       IN  /\ textElements' = updated
           /\ timers' = Scheduled(editor, timers, updated)
           /\ lastCall' = [made |-> TRUE, id |-> textElements[k].id,
                           text |-> text]
  /\ textChangedRef' = IF editor = "PdfTextEditor" THEN TRUE ELSE textChangedRef
  /\ edits' = edits + 1
  /\ UNCHANGED <<editor, pdfFile, currentPage, effectGen, cancelled,
                 resizePending, layout, passes, isExtracting, dom, editedTexts,
                 applied, extracted, patchVars, saveVars, compVars>>

\* a pending timeout runs: onTextChange(snapshot), i.e. setEditedTexts of the
\* page; PdfTextEditor also resets textChangedRef
TimerFire ==
  /\ pc = "idle"
  /\ \E t \in timers :
       /\ editedTexts' = t
       /\ timers' = timers \ {t}
  /\ textChangedRef' = IF editor = "PdfTextEditor" THEN FALSE ELSE textChangedRef
  /\ UNCHANGED <<editor, pdfFile, currentPage, effectGen, cancelled,
                 resizePending, layout, passes, textElements, isExtracting,
                 dom, applied, extracted, lastCall, edits, patchVars, saveVars, compVars>>

InitEditor ==
  /\ PatchIdle
  /\ SaveIdle
  /\ CompIdle
  /\ editor \in Editors
  /\ pdfFile = "A"
  /\ currentPage \in 1..NumPages
  /\ effectGen = 0
  /\ layout = 0
  /\ cancelled = {}
  /\ resizePending = FALSE
  /\ passes = <<>>
  /\ textElements = <<>>
  /\ isExtracting = TRUE
  /\ textChangedRef = FALSE
  /\ timers = {}
  /\ dom = NoDom
  /\ editedTexts = <<>>
  /\ applied = NoApplied
  /\ extracted = <<>>
  /\ lastCall = NoCall
  /\ edits = 0

NextEditor ==
  \/ Mount
  \/ ChangePage
  \/ ChangeFile
  \/ DomRender
  \/ Resize
  \/ ResizeFire
  \/ \E i \in DOMAIN passes : PTE_Load(i)
  \/ \E i \in DOMAIN passes : PTE_PageFound(i)
  \/ \E i \in DOMAIN passes : PTE_GiveUp(i)
  \/ \E i \in DOMAIN passes : PTE_Apply(i)
  \/ \E i \in DOMAIN passes : PTE_Discard(i)
  \/ \E i \in DOMAIN passes : Clean_LayerFound(i)
  \/ \E i \in DOMAIN passes : Clean_LayerTimeout(i)
  \/ \E i \in DOMAIN passes : Clean_Apply(i)
  \/ \E i \in DOMAIN passes : Clean_FallbackApply(i)
  \/ \E i \in DOMAIN passes : PassFails(i)
  \/ HandleTextChange
  \/ TimerFire

SpecEditor == InitEditor /\ [][NextEditor]_vars

----------------------------------------------------------------------------
(* Properties of the text editors                                          *)

\* a pass result has been applied to the block list
SomeApplied == applied.pass > 0

\* C1 (as stated): a pass result is applied to the block list, and scheduled
\* for onTextChange, only when the pass was requested for the page and file
\* displayed at that moment; a pass whose page or file changed in flight
\* applies nothing.  Both editors.
C1_StaleResultDiscarded ==
  SomeApplied =>
    /\ applied.reqFile = applied.atFile
    /\ applied.reqPage = applied.atPage

\* PdfTextEditor alone discards the result of a pass whose page or file
\* changed in flight (its effect cleanup sets isCancelled).
PTE_StaleResultDiscarded ==
  editor = "PdfTextEditor" => C1_StaleResultDiscarded

\* C2 (as stated): in PdfTextEditor a pass that was still in flight when a
\* later pass for the same page and file was started never applies its
\* result to the block list.
C2_SupersededNeverApplies ==
  (editor = "PdfTextEditor" /\ SomeApplied) => ~applied.superseded

\* every field but text of every block is as the extraction set it, in the
\* same number and order
FrameOfExtraction ==
  /\ Len(textElements) = Len(extracted)
  /\ \A k \in DOMAIN textElements :
       /\ textElements[k] = [extracted[k] EXCEPT !.text = textElements[k].text]
       /\ textElements[k].originalText = extracted[k].text

\* a handleTextChange(id, text) step sets the text of the blocks with that
\* id and leaves every other block as it was
FrameOfCall ==
  edits' # edits =>
    /\ Len(textElements') = Len(textElements)
    /\ \A k \in DOMAIN textElements :
         IF textElements[k].id = lastCall'.id
         THEN textElements'[k] = [textElements[k] EXCEPT !.text = lastCall'.text]
         ELSE textElements'[k] = textElements[k]

\* C10: setText(id, newText) changes only the text of the block with that id;
\* number and order of blocks, the other blocks, and the block's originalText,
\* position, size and font stay, also for the empty newText; so after any
\* sequence of calls every originalText is the extraction-time text.
C10_SetTextFrame == []FrameOfExtraction /\ [][FrameOfCall]_vars

\* C10 witness: a call with the empty text has been made and the block is
\* still in the list, empty, with its extraction-time originalText
C10_Witness ==
  /\ lastCall.made /\ lastCall.text = <<>>
  /\ \E k \in DOMAIN textElements :
       /\ textElements[k].id = lastCall.id
       /\ textElements[k].text = <<>>
       /\ textElements[k].originalText # <<>>

----------------------------------------------------------------------------
(* handleSave of src/app/page.tsx, with clearAndRedrawPDFPage,             *)
(* applyFabricToPDF and savePDF of src/PDF_LIB_SETUP.md                    *)

\* what a page of a document holds: its original content, then what was drawn
OriginalContent(p) == [kind |-> "original", text |-> <<Digit(p)>>]

LoadedDoc ==
  [loaded |-> TRUE, pages |-> [p \in 1..NumPages |-> <<OriginalContent(p)>>]]

\* a character the standard font's WinAnsi encoding does not have (U+65E5)
NotWinAnsi == {"U+65E5"}

Encodable(t) == \A i \in DOMAIN t : t[i] \notin NotWinAnsi

\* the objects a fabric canvas holds
FabricObjects ==
  { [type |-> "textbox", text |-> <<"H", "i">>],
    [type |-> "textbox", text |-> <<"U+65E5">>],
    [type |-> "rect", text |-> <<>>] }

Canvases ==
  { NoCanvas } \cup
  { [present |-> TRUE, objects |-> o] :
      o \in UNION { [1..n -> FabricObjects] : n \in 0..MaxObjects } }

\* page.drawText raises on text the font cannot encode; the other objects draw
Draws(obj) == obj.type # "textbox" \/ Encodable(obj.text)

\* index of the first object applyFabricToPDF fails to draw, or 0
FirstFailing(objs) ==
  IF \A j \in DOMAIN objs : Draws(objs[j]) THEN 0
  ELSE CHOOSE j \in DOMAIN objs :
         /\ ~Draws(objs[j])
         /\ \A h \in 1..(j - 1) : Draws(objs[h])

\* the content applyFabricToPDF has drawn after the first n objects
DrawnObjects(objs, n) ==
  [j \in 1..n |-> [kind |-> objs[j].type, text |-> objs[j].text]]

\* the document the patch service answers with: page p with the edited texts
\* drawn over it
PatchedDoc(doc, p, texts) ==
  [doc EXCEPT !.pages[p] =
     @ \o [k \in DOMAIN texts |-> [kind |-> "patch", text |-> texts[k].text]]]

\* the bytes of a reloaded document are a new file
EditedFile(f) == f \o "+"

SaveResting == savePc \in {"idle", "ok", "failed", "refused"}

SaveFrame ==
  UNCHANGED <<patchVars, compVars, editor, effectGen, cancelled, resizePending, layout,
              passes, textElements, isExtracting, textChangedRef, timers, dom,
              applied, extracted, lastCall, edits, currentPage, editedTexts,
              editMode, canvasInstance>>

\* if (!pdfDoc || !pdfFile) { alert('No PDF loaded'); return; }
Save_Refuse ==
  /\ SaveResting /\ saves < MaxSaves
  /\ ~pdfDoc.loaded \/ pdfFile = "none"
  /\ savePc' = "refused"
  /\ saves' = saves + 1
  /\ UNCHANGED <<pdfDoc, pdfFile, saveBranch, received, docBefore, fileBefore,
                 sentReq>>
  /\ SaveFrame

\* handleSave picks its branch: editMode && editedTexts.length > 0, else if
\* (canvasInstance), else
Save_Start ==
  /\ SaveResting /\ saves < MaxSaves
  /\ pdfDoc.loaded /\ pdfFile # "none"
  /\ saves' = saves + 1
  /\ docBefore' = pdfDoc
  /\ fileBefore' = pdfFile
  /\ saveBranch' = IF editMode /\ Len(editedTexts) > 0 THEN "edit"
                   ELSE IF canvasInstance.present THEN "canvas" ELSE "plain"
  /\ savePc' = saveBranch'
  /\ sentReq' = IF saveBranch' = "edit"
                THEN [made |-> TRUE, pageNumber |-> currentPage,
                      editedTexts |-> editedTexts]
                ELSE NoRequest
  /\ UNCHANGED <<pdfDoc, pdfFile, received>>
  /\ SaveFrame

\* const pdfBytes = await pdfDoc.save(); ... btoa(binary)
Edit_Serialize ==
  /\ savePc = "edit"
  /\ \E ok \in BOOLEAN : savePc' = IF ok THEN "fetch" ELSE "failed"
  /\ UNCHANGED <<pdfDoc, pdfFile, saveBranch, received, docBefore, fileBefore,
                 saves, sentReq>>
  /\ SaveFrame

\* await fetch('/api/edit-pdf', ...) with the pageNumber and editedTexts of
\* the render handleSave was created in; if (!response.ok) throw ...; the
\* answer is decoded and downloaded
Edit_Fetch ==
  /\ savePc = "fetch"
  /\ \E reply \in {"ok", "error", "network"} :
       IF reply = "ok"
       THEN /\ received' = PatchedDoc(pdfDoc, sentReq.pageNumber,
                                       sentReq.editedTexts)
            /\ savePc' = "reload"
       ELSE /\ savePc' = "failed"
            /\ UNCHANGED received
  /\ UNCHANGED <<pdfDoc, pdfFile, saveBranch, docBefore, fileBefore, saves,
                 sentReq>>
  /\ SaveFrame

\* const newDoc = await PDFDocument.load(bytes); setPdfDoc(newDoc);
\* setPdfFile(arrayBuffer)
Edit_Reload ==
  /\ savePc = "reload"
  /\ \E ok \in BOOLEAN :
       IF ok
       THEN /\ pdfDoc' = received
            /\ pdfFile' = EditedFile(pdfFile)
            /\ savePc' = "ok"
       ELSE /\ savePc' = "failed"
            /\ UNCHANGED <<pdfDoc, pdfFile>>
  /\ UNCHANGED <<saveBranch, received, docBefore, fileBefore, saves,
                 sentReq>>
  /\ SaveFrame

\* clearAndRedrawPDFPage(pdfDoc, currentPage - 1, canvasInstance):
\* pdfDoc.removePage(pageIndex); pdfDoc.insertPage(pageIndex, [width, height]);
\* applyFabricToPDF draws every object
Canvas_Redraw ==
  /\ savePc = "canvas"
  /\ FirstFailing(canvasInstance.objects) = 0
  /\ pdfDoc' = [pdfDoc EXCEPT !.pages[currentPage] =
                  DrawnObjects(canvasInstance.objects,
                               Len(canvasInstance.objects))]
  /\ savePc' = "canvasSave"
  /\ UNCHANGED <<pdfFile, saveBranch, received, docBefore, fileBefore, saves,
                 sentReq>>
  /\ SaveFrame

\* the same with page.drawText raising at an object: the objects before it
\* are on the new blank page, the exception reaches handleSave's catch
Canvas_RedrawFails ==
  /\ savePc = "canvas"
  /\ FirstFailing(canvasInstance.objects) # 0
  /\ pdfDoc' = [pdfDoc EXCEPT !.pages[currentPage] =
                  DrawnObjects(canvasInstance.objects,
                               FirstFailing(canvasInstance.objects) - 1)]
  /\ savePc' = "failed"
  /\ UNCHANGED <<pdfFile, saveBranch, received, docBefore, fileBefore, saves,
                 sentReq>>
  /\ SaveFrame

\* const blob = await savePDF(pdfDoc); downloadPDF(blob, 'edited.pdf') after
\* the redraw
Canvas_Save ==
  /\ savePc = "canvasSave"
  /\ \E ok \in BOOLEAN : savePc' = IF ok THEN "ok" ELSE "failed"
  /\ UNCHANGED <<pdfDoc, pdfFile, saveBranch, received, docBefore, fileBefore,
                 saves, sentReq>>
  /\ SaveFrame

\* const blob = await savePDF(pdfDoc); downloadPDF(blob, 'edited.pdf')
Plain_Save ==
  /\ savePc = "plain"
  /\ \E ok \in BOOLEAN : savePc' = IF ok THEN "ok" ELSE "failed"
  /\ UNCHANGED <<pdfDoc, pdfFile, saveBranch, received, docBefore, fileBefore,
                 saves, sentReq>>
  /\ SaveFrame

InitSave ==
  /\ PatchIdle
  /\ EditorIdle
  /\ CompIdle
  /\ pdfDoc \in {NoDoc, LoadedDoc}
  /\ pdfFile = IF pdfDoc.loaded THEN "A" ELSE "none"
  /\ currentPage \in 1..NumPages
  /\ editMode \in BOOLEAN
  /\ editedTexts \in
       { <<>>,
         NotifyFormat(
           handleTextChange(
             PageBlocks("PdfTextEditorClean", "A", currentPage, 0),
             ElementId("PdfTextEditorClean", currentPage, 0), <<"X">>)) }
  /\ canvasInstance \in Canvases
  /\ savePc = "idle"
  /\ saveBranch = "none"
  /\ received = NoDoc
  /\ docBefore = NoDoc
  /\ fileBefore = "none"
  /\ saves = 0
  /\ sentReq = NoRequest

NextSave ==
  \/ Save_Refuse
  \/ Save_Start
  \/ Edit_Serialize
  \/ Edit_Fetch
  \/ Edit_Reload
  \/ Canvas_Redraw
  \/ Canvas_RedrawFails
  \/ Canvas_Save
  \/ Plain_Save

SpecSave == InitSave /\ [][NextSave]_vars

----------------------------------------------------------------------------
(* Properties of handleSave                                                *)

SaveUnchanged == pdfDoc = docBefore /\ pdfFile = fileBefore

\* C9 (as stated): whenever handleSave ends in failure, pdfDoc and pdfFile
\* are what they were when the save was started, page content included, on
\* every branch (edit-mode patch, canvas redraw, plain save).
C9_FailedSaveLeavesDocument == savePc = "failed" => SaveUnchanged

\* On the edit-mode and plain branches a failed save does leave the document
\* and the file as they were.
FailedSaveOffCanvas ==
  (savePc = "failed" /\ saveBranch # "canvas") => SaveUnchanged

----------------------------------------------------------------------------
(* Grouping of runs into blocks: groupTextItems of PdfTextEditorClean      *)
(* (src/unnamed/part_001) and the grouping loop of extractTextPositions    *)
(* (src/components/PdfTextEditor.tsx)                                      *)

\* positions and sizes of the runs handed to the grouping
RunXs == {10, 55, 75, 90, 171}
RunYs == {10, 12, 25, 40, 62}
RunSizes ==
  { [fontSize |-> 12, width |-> 40], [fontSize |-> 12, width |-> 100],
    [fontSize |-> 20, width |-> 40] }

RunShapes == [x : RunXs, y : RunYs, size : RunSizes]

\* the text of the run at x
RunText(x) ==
  CASE x = 10 -> <<"H", "e", "l", "l", "o">>
    [] x = 55 -> <<"W", "o", "r", "l", "d">>
    [] x = 75 -> <<"a">>
    [] x = 90 -> <<"b">>
    [] OTHER -> <<"c">>

\* the i-th extracted run (i from 0): id `text-${idCounter++}`, height and
\* fontSize as extractWithPdfJs sets them (height: fontSize)
Run(i, shape) ==
  [id |-> <<"text", Digit(i)>>,
   text |-> RunText(shape.x), originalText |-> RunText(shape.x),
   x |-> shape.x, y |-> shape.y,
   width |-> shape.size.width, height |-> shape.size.fontSize,
   fontSize |-> RInt(shape.size.fontSize),
   fontFamily |-> "Arial", fontWeight |-> "normal", fontStyle |-> "normal"]

RunLists ==
  UNION { { [i \in 1..n |-> Run(i - 1, f[i])] : f \in [1..n -> RunShapes] } :
          n \in 0..MaxRuns }

\* the comparators of the sorts.  groupTextItems: (a, b) => { yDiff = a.y -
\* b.y; if (Math.abs(yDiff) > 5) return yDiff; return a.x - b.x }, with 2 for
\* 5 in the paragraph sort; extractTextPositions: if (Math.abs(a.y - b.y) <
\* avgFontSize * 0.5) return a.x - b.x; return a.y - b.y
ReadOrder == [within |-> RInt(5), inclusive |-> TRUE]
ParagraphOrder == [within |-> RInt(2), inclusive |-> TRUE]
HalfFontOrder(fontSize) ==
  [within |-> RMul(fontSize, <<1, 2>>), inclusive |-> FALSE]

Compare(tolerance, a, b) ==
  LET yDiff == RInt(Abs(a.y - b.y))
      sameRow == IF tolerance.inclusive THEN ~RLt(tolerance.within, yDiff)
                 ELSE RLt(yDiff, tolerance.within)
  IN  IF sameRow THEN a.x - b.x ELSE a.y - b.y

Reverse(s) == [i \in 1..Len(s) |-> s[Len(s) + 1 - i]]

\* Array.prototype.sort on a short array (V8: the leading run, reversed when
\* it descends, then binary insertion of the rest)
RECURSIVE RunEnd(_, _, _, _)
RunEnd(tolerance, s, desc, i) ==
  IF i > Len(s) THEN i - 1
  ELSE IF (desc /\ Compare(tolerance, s[i], s[i - 1]) >= 0)
          \/ (~desc /\ Compare(tolerance, s[i], s[i - 1]) < 0)
       THEN i - 1
       ELSE RunEnd(tolerance, s, desc, i + 1)

RunLength(tolerance, s) ==
  RunEnd(tolerance, s, Compare(tolerance, s[2], s[1]) < 0, 3)

RECURSIVE BinarySearch(_, _, _, _, _)
BinarySearch(tolerance, s, pivot, left, right) ==
  IF left >= right THEN left
  ELSE IF Compare(tolerance, pivot,
                  s[left + ((right - left) \div 2) + 1]) < 0
       THEN BinarySearch(tolerance, s, pivot, left,
                         left + ((right - left) \div 2))
       ELSE BinarySearch(tolerance, s, pivot,
                         left + ((right - left) \div 2) + 1, right)

BinaryInsert(tolerance, s, pivot) ==
  LET pos == BinarySearch(tolerance, s, pivot, 0, Len(s))
  IN  SubSeq(s, 1, pos) \o <<pivot>> \o SubSeq(s, pos + 1, Len(s))

RECURSIVE InsertRest(_, _, _, _)
InsertRest(tolerance, s, acc, i) ==
  IF i > Len(s) THEN acc
  ELSE InsertRest(tolerance, s, BinaryInsert(tolerance, acc, s[i]), i + 1)

ArraySort(tolerance, s) ==
  IF Len(s) < 2 THEN s
  ELSE LET n == RunLength(tolerance, s)
           first == IF Compare(tolerance, s[2], s[1]) < 0
                    THEN Reverse(SubSeq(s, 1, n)) ELSE SubSeq(s, 1, n)
       IN  InsertRest(tolerance, s, first, n + 1)

\* items.reduce((sum, e) => sum + e.fontSize, 0) / items.length
RECURSIVE SumFontSize(_, _)
SumFontSize(items, i) ==
  IF i = 0 THEN Zero ELSE RAdd(SumFontSize(items, i - 1), items[i].fontSize)

avgFontSize(items) ==
  RDiv(SumFontSize(items, Len(items)), RInt(Len(items)))

\* Math.max(avgFontSize * 0.4, 8)
lineThreshold(items) == RMax(RMul(avgFontSize(items), <<2, 5>>), RInt(8))

\* a line assembly that compares curr with the first run of the current line
RECURSIVE LinesFrom_LineStart(_, _, _, _)
LinesFrom_LineStart(sorted, i, done, currentLine) ==
  IF i > Len(sorted) THEN Append(done, currentLine)
  ELSE IF RLt(RInt(Abs(currentLine[1].y - sorted[i].y)), lineThreshold(sorted))
       THEN LinesFrom_LineStart(sorted, i + 1, done,
                                Append(currentLine, sorted[i]))
       ELSE LinesFrom_LineStart(sorted, i + 1, Append(done, currentLine),
                                <<sorted[i]>>)

\* the loop over sorted: curr joins currentLine when
\* Math.abs(prev.y - curr.y) < lineThreshold, else starts a new line
RECURSIVE LinesFrom(_, _, _, _)
LinesFrom(sorted, i, done, currentLine) ==
  IF i > Len(sorted) THEN Append(done, currentLine)
  ELSE IF RLt(RInt(Abs(sorted[i - 1].y - sorted[i].y)), lineThreshold(sorted))
       THEN LinesFrom(sorted, i + 1, done, Append(currentLine, sorted[i]))
       ELSE LinesFrom(sorted, i + 1, Append(done, currentLine), <<sorted[i]>>)

AssembleLines(sorted) == LinesFrom(sorted, 2, <<>>, <<sorted[1]>>)

MaxOf(S) == CHOOSE m \in S : \A n \in S : n <= m
MinOf(S) == CHOOSE m \in S : \A n \in S : m <= n

\* Math.min(...line.map(e => e.x)) and the like, of a line or a paragraph
LeftOf(items) == MinOf({ items[i].x : i \in DOMAIN items })
RightOf(items) == MaxOf({ items[i].x + items[i].width : i \in DOMAIN items })
TopOf(items) == MinOf({ items[i].y : i \in DOMAIN items })
BottomOf(items) == MaxOf({ items[i].y + items[i].height : i \in DOMAIN items })

\* const isTightSpacing = lineGap <= ABSOLUTE_GAP_THRESHOLD
isTightSpacing(prevLine, currLine) == TopOf(currLine) - BottomOf(prevLine) <= 5

\* the column test with any positive gap sufficing beside a misalignment
\* over 60
isDifferentColumn_AnyGap(prevLine, currLine) ==
  LET leftAlignmentDiff == Abs(LeftOf(prevLine) - LeftOf(currLine))
      horizontalGap == LeftOf(currLine) - RightOf(prevLine)
  IN  \/ horizontalGap > 60
      \/ leftAlignmentDiff > 60 /\ horizontalGap > 0
      \/ horizontalGap > 40 /\ leftAlignmentDiff > 40

\* horizontalGap > 60 || (leftAlignmentDiff > 60 && horizontalGap > 30) ||
\* (horizontalGap > 40 && leftAlignmentDiff > 40)
isDifferentColumn(prevLine, currLine) ==
  LET leftAlignmentDiff == Abs(LeftOf(prevLine) - LeftOf(currLine))
      horizontalGap == LeftOf(currLine) - RightOf(prevLine)
  IN  \/ horizontalGap > 60
      \/ leftAlignmentDiff > 60 /\ horizontalGap > 30
      \/ horizontalGap > 40 /\ leftAlignmentDiff > 40

\* fontSizeRatio = max(prevAvg, currAvg) / min(prevAvg, currAvg) > 1.5
isHeading(prevLine, currLine) ==
  LET prevAvgFontSize == avgFontSize(prevLine)
      currAvgFontSize == avgFontSize(currLine)
  IN  RLt(<<3, 2>>, RDiv(RMax(prevAvgFontSize, currAvgFontSize),
                         RMin(prevAvgFontSize, currAvgFontSize)))

isParagraphBreak(prevLine, currLine) ==
  \/ ~isTightSpacing(prevLine, currLine)
  \/ isDifferentColumn(prevLine, currLine)
  \/ isHeading(prevLine, currLine)

\* the loop over lines: on a break the current paragraph is closed and a new
\* one starts with currLine, else currLine's runs join the current paragraph
RECURSIVE ParagraphsFrom(_, _, _, _)
ParagraphsFrom(ls, i, done, currentParagraph) ==
  IF i > Len(ls) THEN Append(done, currentParagraph)
  ELSE IF isParagraphBreak(ls[i - 1], ls[i])
       THEN ParagraphsFrom(ls, i + 1, Append(done, currentParagraph), ls[i])
       ELSE ParagraphsFrom(ls, i + 1, done, currentParagraph \o ls[i])

AssembleParagraphs(ls) == ParagraphsFrom(ls, 2, <<>>, ls[1])

\* paragraph.reduce((sum, e) => sum + e.width, 0)
RECURSIVE SumWidth(_, _)
SumWidth(paragraph, i) ==
  IF i = 0 THEN 0 ELSE SumWidth(paragraph, i - 1) + paragraph[i].width

\* paragraphWidth > avgItemWidth * 3 && paragraph.length > 1
\* a safety check that splits at twice the average item width
SpansColumns_Twice(paragraph) ==
  LET avgItemWidth == RDiv(RInt(SumWidth(paragraph, Len(paragraph))),
                           RInt(Len(paragraph)))
      paragraphWidth == RightOf(paragraph) - LeftOf(paragraph)
  IN  /\ RLt(RMul(avgItemWidth, RInt(2)), RInt(paragraphWidth))
      /\ Len(paragraph) > 1

SpansColumns(paragraph) ==
  LET avgItemWidth == RDiv(RInt(SumWidth(paragraph, Len(paragraph))),
                           RInt(Len(paragraph)))
      paragraphWidth == RightOf(paragraph) - LeftOf(paragraph)
  IN  /\ RLt(RMul(avgItemWidth, RInt(3)), RInt(paragraphWidth))
      /\ Len(paragraph) > 1

\* the text of a sorted paragraph: the first run's text, then for every
\* further run a space when Math.abs(e.y - prev.y) < 2, else a newline,
\* followed by the run's text
RECURSIVE TextUpTo(_, _)
TextUpTo(paragraph, i) ==
  IF i = 1 THEN paragraph[1].text
  ELSE TextUpTo(paragraph, i - 1)
       \o (IF Abs(paragraph[i].y - paragraph[i - 1].y) < 2
           THEN <<" ">> ELSE <<"\n">>)
       \o paragraph[i].text

\* a combined text that is the first run's text
combinedText_FirstOnly(paragraph) == paragraph[1].text

combinedText(paragraph) == TextUpTo(paragraph, Len(paragraph))

\* values.reduce((a, b, _, arr) => count(a) >= count(b) ? a : b, values[0])
CountOf(values, v) == Cardinality({ i \in DOMAIN values : values[i] = v })

RECURSIVE MostCommonUpTo(_, _)
MostCommonUpTo(values, i) ==
  IF i = 0 THEN values[1]
  ELSE LET a == MostCommonUpTo(values, i - 1)
       IN  IF CountOf(values, a) >= CountOf(values, values[i])
           THEN a ELSE values[i]

\* a style taken from the first run
mostCommon_First(values) == values[1]

mostCommon(values) == MostCommonUpTo(values, Len(values))

\* the grouped element of a sorted paragraph of several runs
groupedElement(paragraph, groupIdCounter) ==
  [id |-> <<"text-group", Digit(groupIdCounter)>>,
   text |-> combinedText(paragraph),
   originalText |-> combinedText(paragraph),
   x |-> LeftOf(paragraph), y |-> TopOf(paragraph),
   width |-> RightOf(paragraph) - LeftOf(paragraph),
   height |-> BottomOf(paragraph) - TopOf(paragraph),
   fontSize |-> avgFontSize(paragraph),
   fontFamily |-> mostCommon([i \in DOMAIN paragraph |-> paragraph[i].fontFamily]),
   fontWeight |-> mostCommon([i \in DOMAIN paragraph |-> paragraph[i].fontWeight]),
   fontStyle |-> mostCommon([i \in DOMAIN paragraph |-> paragraph[i].fontStyle])]

\* "Convert paragraphs to TextElement objects": each paragraph is sorted;
\* one spanning columns is emitted run by run, a single run as it is, the
\* others as one grouped element.  members lists, per element, its runs.
RECURSIVE EmitFrom(_, _, _, _, _)
EmitFrom(ps, i, grouped, members, groupIdCounter) ==
  IF i > Len(ps) THEN [grouped |-> grouped, members |-> members]
  ELSE LET paragraph == ArraySort(ParagraphOrder, ps[i])
       IN  IF SpansColumns(paragraph) \/ Len(paragraph) = 1
           THEN EmitFrom(ps, i + 1, grouped \o paragraph,
                         members \o [k \in DOMAIN paragraph |-> <<paragraph[k]>>],
                         groupIdCounter)
           ELSE EmitFrom(ps, i + 1,
                         Append(grouped,
                                groupedElement(paragraph, groupIdCounter)),
                         Append(members, paragraph), groupIdCounter + 1)

EmitBlocks(ps, itemCount) == EmitFrom(ps, 1, <<>>, <<>>, itemCount)

GroupFrame ==
  UNCHANGED <<patchVars, editorVars, saveVars, extractVars, inputVars, normVars, grouper,
              runs>>

\* if (items.length === 0) return []
Group_Empty ==
  /\ grouper = "groupTextItems" /\ gpc = "start"
  /\ Len(runs) = 0
  /\ blocks' = <<>>
  /\ gpc' = "done"
  /\ UNCHANGED <<lines, paragraphs, blockRuns>>
  /\ GroupFrame

\* the items are sorted by reading order and grouped into lines
Group_Lines ==
  /\ grouper = "groupTextItems" /\ gpc = "start"
  /\ Len(runs) > 0
  /\ lines' = AssembleLines(ArraySort(ReadOrder, runs))
  /\ gpc' = "lines"
  /\ UNCHANGED <<paragraphs, blocks, blockRuns>>
  /\ GroupFrame

\* the lines are grouped into paragraphs
Group_Paragraphs ==
  /\ grouper = "groupTextItems" /\ gpc = "lines"
  /\ paragraphs' = AssembleParagraphs(lines)
  /\ gpc' = "paragraphs"
  /\ UNCHANGED <<lines, blocks, blockRuns>>
  /\ GroupFrame

\* the paragraphs are converted to elements; return grouped
Group_Emit ==
  /\ grouper = "groupTextItems" /\ gpc = "paragraphs"
  /\ LET out == EmitBlocks(paragraphs, Len(runs))
     IN  /\ blocks' = out.grouped
         /\ blockRuns' = out.members
  /\ gpc' = "done"
  /\ UNCHANGED <<lines, paragraphs>>
  /\ GroupFrame

\* extractTextPositions: other joins the paragraph after lastItem when it is
\* on the same line (yDiff < lastItem.fontSize * 0.2), of similar font size
\* (difference < 2), and either follows within 5 font sizes or overlaps
\* lastItem's end by less than half a font size
JoinsAfter(lastItem, other) ==
  LET yDiff == RInt(Abs(lastItem.y - other.y))
      xDiff == other.x - (lastItem.x + lastItem.width)
      fontSizeDiff == RSub(RMax(lastItem.fontSize, other.fontSize),
                           RMin(lastItem.fontSize, other.fontSize))
      isSameLine == RLt(yDiff, RMul(lastItem.fontSize, <<1, 5>>))
      isSimilarFont == RLt(fontSizeDiff, RInt(2))
  IN  /\ isSameLine /\ isSimilarFont
      /\ \/ xDiff >= 0 /\ RLt(RInt(xDiff), RMul(lastItem.fontSize, RInt(5)))
         \/ xDiff < 0 /\ RLt(RInt(-xDiff), RMul(lastItem.fontSize, <<1, 2>>))

\* the while (foundMore) loop: the indices chained to the paragraph that
\* starts at item i, each found by scanning forward from the last one found
RECURSIVE Chain(_, _, _, _)
Chain(textItems, acc, searchIndex, taken) ==
  LET lastItem == textItems[acc[Len(acc)]]
      found == { j \in (searchIndex + 1)..Len(textItems) :
                   j \notin taken /\ JoinsAfter(lastItem, textItems[j]) }
  IN  IF found = {} THEN acc
      ELSE Chain(textItems, Append(acc, MinOf(found)), MinOf(found),
                 taken \cup {MinOf(found)})

ChainFrom(textItems, i, used) == Chain(textItems, <<i>>, i, used \cup {i})

\* the text of the sorted items: (yDiff > avgFontSize * 0.5 ? '\n' : ' ')
\* between consecutive items
RECURSIVE PTE_TextUpTo(_, _, _)
PTE_TextUpTo(sorted, avgSize, i) ==
  IF i = 1 THEN sorted[1].text
  ELSE PTE_TextUpTo(sorted, avgSize, i - 1)
       \o (IF RLt(RMul(avgSize, <<1, 2>>),
                  RInt(Abs(sorted[i].y - sorted[i - 1].y)))
           THEN <<"\n">> ELSE <<" ">>)
       \o sorted[i].text

\* the element made of paragraphItems when no text layer is there to measure:
\* sorted by reading order; minY is the first item's y
PTE_Element(paragraphItems, count) ==
  LET sorted == ArraySort(HalfFontOrder(paragraphItems[1].fontSize),
                          paragraphItems)
      text == PTE_TextUpTo(sorted, paragraphItems[1].fontSize, Len(sorted))
      minX == LeftOf(sorted)
      maxX == RightOf(sorted)
      minY == sorted[1].y
      maxY == BottomOf(sorted)
      maxItemWidth == MaxOf({ sorted[k].width : k \in DOMAIN sorted })
  IN  [element |->
         [id |-> <<"text", Digit(1), Digit(count)>>,
          text |-> text, originalText |-> text,
          x |-> minX, y |-> minY,
          width |-> MaxOf({maxX - minX, maxItemWidth}),
          height |-> maxY - minY,
          fontSize |-> sorted[1].fontSize, fontFamily |-> sorted[1].fontFamily,
          fontWeight |-> sorted[1].fontWeight,
          fontStyle |-> sorted[1].fontStyle],
       members |-> sorted]

\* the loop "Group text items into paragraphs" of extractTextPositions
RECURSIVE PTE_ElementsFrom(_, _, _, _, _)
PTE_ElementsFrom(textItems, i, used, elements, members) ==
  IF i > Len(textItems) THEN [grouped |-> elements, members |-> members]
  ELSE IF i \in used
       THEN PTE_ElementsFrom(textItems, i + 1, used, elements, members)
       ELSE LET chain == ChainFrom(textItems, i, used)
                made == PTE_Element([k \in DOMAIN chain |-> textItems[chain[k]]],
                                    Len(elements))
            IN  PTE_ElementsFrom(textItems, i + 1,
                                 used \cup { chain[k] : k \in DOMAIN chain },
                                 Append(elements, made.element),
                                 Append(members, made.members))

PTE_Elements(textItems) == PTE_ElementsFrom(textItems, 1, {}, <<>>, <<>>)

\* extractTextPositions groups the page's text items (no text layer found)
PTE_Group ==
  /\ grouper = "extractTextPositions" /\ gpc = "start"
  /\ LET out == PTE_Elements(runs)
     IN  /\ blocks' = out.grouped
         /\ blockRuns' = out.members
  /\ gpc' = "done"
  /\ UNCHANGED <<lines, paragraphs>>
  /\ GroupFrame

InitGroup ==
  /\ PatchIdle /\ EditorIdle /\ PageIdle /\ SaveIdle
  /\ ExtractIdle /\ InputIdle /\ NormIdle
  /\ grouper \in {"groupTextItems", "extractTextPositions"}
  /\ runs \in RunLists
  /\ lines = <<>>
  /\ paragraphs = <<>>
  /\ blocks = <<>>
  /\ blockRuns = <<>>
  /\ gpc = "start"

NextGroup ==
  \/ Group_Empty
  \/ Group_Lines
  \/ Group_Paragraphs
  \/ Group_Emit
  \/ PTE_Group

SpecGroup == InitGroup /\ [][NextGroup]_vars

----------------------------------------------------------------------------
(* Properties of the grouping                                              *)

GroupDone(g) == grouper = g /\ gpc = "done"

\* the index of the list of seq (a line, a paragraph, a block's members) that
\* holds the run with this id
HolderOf(seq, id) ==
  CHOOSE k \in DOMAIN seq : \E i \in DOMAIN seq[k] : seq[k][i].id = id

\* C11 (as stated): groupTextItems never emits a block holding two runs of
\* the same y whose horizontal gap (left edge of the right run minus right
\* edge of the left run) exceeds 60, whatever their widths and font sizes.
C11_ColumnSplit ==
  GroupDone("groupTextItems") =>
    \A k \in DOMAIN blockRuns : \A i, j \in DOMAIN blockRuns[k] :
      ~ /\ blockRuns[k][i].y = blockRuns[k][j].y
        /\ blockRuns[k][j].x
             - (blockRuns[k][i].x + blockRuns[k][i].width) > 60

\* Two runs of the same y more than 60 apart are kept apart when both are
\* narrow: the block's width then exceeds three times the mean run width.
NarrowColumnsSplit ==
  GroupDone("groupTextItems") =>
    \A k \in DOMAIN blockRuns : \A i, j \in DOMAIN blockRuns[k] :
      ~ /\ blockRuns[k][i].y = blockRuns[k][j].y
        /\ blockRuns[k][j].x
             - (blockRuns[k][i].x + blockRuns[k][i].width) > 60
        /\ blockRuns[k][i].width = 40 /\ blockRuns[k][j].width = 40

\* the quantities the merge rule is stated in
VerticalGap(prev, curr) == TopOf(curr) - BottomOf(prev)
HorizontalGap(prev, curr) == LeftOf(curr) - RightOf(prev)
Misalignment(prev, curr) == Abs(LeftOf(prev) - LeftOf(curr))
FontRatioAtMost(prev, curr, bound) ==
  /\ ~RLt(RMul(avgFontSize(prev), bound), avgFontSize(curr))
  /\ ~RLt(RMul(avgFontSize(curr), bound), avgFontSize(prev))

\* lines k - 1 and k of the page are in one paragraph
Merged(k) ==
  HolderOf(paragraphs, lines[k - 1][1].id) = HolderOf(paragraphs, lines[k][1].id)

ParagraphsAssembled ==
  grouper = "groupTextItems" /\ gpc \in {"paragraphs", "done"}

\* the merge rule with `gapNeeded` as the horizontal gap that has to be
\* exceeded beside a misalignment over 60
MergeRule(gapNeeded) ==
  ParagraphsAssembled =>
    \A k \in 2..Len(lines) :
      Merged(k) <=>
        /\ VerticalGap(lines[k - 1], lines[k]) <= 5
        /\ ~ \/ HorizontalGap(lines[k - 1], lines[k]) > 60
             \/ /\ Misalignment(lines[k - 1], lines[k]) > 60
                /\ HorizontalGap(lines[k - 1], lines[k]) > gapNeeded
             \/ /\ HorizontalGap(lines[k - 1], lines[k]) > 40
                /\ Misalignment(lines[k - 1], lines[k]) > 40
        /\ FontRatioAtMost(lines[k - 1], lines[k], <<3, 2>>)

\* two single-word lines of font size 12, the second at (x, y)
TwoLines(x, y) ==
  /\ Len(runs) = 2
  /\ runs[1].x = 10 /\ runs[1].y = 10 /\ runs[2].x = x /\ runs[2].y = y
  /\ \A i \in 1..2 : runs[i].fontSize = RInt(12) /\ runs[i].width = 40

\* the examples: aligned lines 3 apart end in one block, 40 apart in two,
\* lines 30 apart in y and misaligned by 80 in two
MergeExamples ==
  GroupDone("groupTextItems") =>
    /\ TwoLines(10, 25) => Len(blocks) = 1
    /\ TwoLines(10, 62) => Len(blocks) = 2
    /\ TwoLines(90, 40) => Len(blocks) = 2

\* C12 (amended): consecutive lines prev, curr are put in the same paragraph
\* iff curr's top minus prev's bottom is at most 5, they are not in different
\* columns (horizontal gap > 60, or misalignment > 60 with a horizontal gap
\* > 30, or gap > 40 and misalignment > 40), and the ratio of their average
\* font sizes is at most 1.5; the three examples end in one, two and two
\* blocks.
C12_MergeRule == MergeRule(30) /\ MergeExamples

\* C12 (as stated): the same with any horizontal gap (> 0) sufficing beside a
\* misalignment over 60.
C12_Original == MergeRule(0) /\ MergeExamples

\* C12 witness: two lines misaligned by more than 60 with a horizontal gap of
\* at most 30, tightly spaced, have been merged into one paragraph.
C12_Witness ==
  /\ ParagraphsAssembled
  /\ Len(lines) = 2 /\ Len(paragraphs) = 1
  /\ Misalignment(lines[1], lines[2]) > 60
  /\ HorizontalGap(lines[1], lines[2]) > 0
  /\ HorizontalGap(lines[1], lines[2]) <= 30

\* the text the recombination rule gives the runs of a block: a space before
\* a run that line assembly put on the line of the run before it, a newline
\* before one on another line
RECURSIVE RuleTextUpTo(_, _)
RuleTextUpTo(members, i) ==
  IF i = 1 THEN members[1].text
  ELSE RuleTextUpTo(members, i - 1)
       \o (IF HolderOf(lines, members[i].id) = HolderOf(lines, members[i - 1].id)
           THEN <<" ">> ELSE <<"\n">>)
       \o members[i].text

\* C13 (as stated): the text of a block of several runs is its runs' texts in
\* read order, with one space between consecutive runs that line assembly put
\* on the same line and one newline between consecutive runs on different
\* lines.
C13_BlockText ==
  GroupDone("groupTextItems") =>
    \A k \in DOMAIN blocks :
      Len(blockRuns[k]) > 1 =>
        blocks[k].text = RuleTextUpTo(blockRuns[k], Len(blockRuns[k]))

\* "Hello" (x=10, w=40) and "World" (x=55, w=40) at the same y yield one block
\* with text "Hello World".
HelloWorld ==
  ( /\ GroupDone("groupTextItems") /\ Len(runs) = 2
    /\ runs[1].x = 10 /\ runs[2].x = 55 /\ runs[1].y = runs[2].y
    /\ runs[1].width = 40 /\ runs[2].width = 40 )
  => /\ Len(blocks) = 1
     /\ blocks[1].text = <<"H", "e", "l", "l", "o", " ", "W", "o", "r", "l", "d">>

\* the box of the run lies inside the box of the block
Inside(run, block) ==
  /\ block.x <= run.x /\ block.y <= run.y
  /\ run.x + run.width <= block.x + block.width
  /\ run.y + run.height <= block.y + block.height

Contained(k) ==
  \A i \in DOMAIN blockRuns[k] :
    /\ Inside(blockRuns[k][i], blocks[k])
    /\ blocks[k].width >= blockRuns[k][i].width

\* C14 (as stated): for every block either grouping produces, the box of
\* every member run lies inside the block's box, and the block is at least as
\* wide as its widest member run.
C14_Containment == gpc = "done" => \A k \in DOMAIN blocks : Contained(k)

\* groupTextItems' blocks do contain their runs.
Clean_Containment ==
  GroupDone("groupTextItems") => \A k \in DOMAIN blocks : Contained(k)

----------------------------------------------------------------------------
(* Properties of the font selection of the patchers                        *)

\* the standard font of a family ("Times", "Courier", "Helvetica") in the
\* bold and / or italic variant
FontOfFamily(family, bold, italic) ==
  CASE family = "Times" ->
         (IF bold THEN (IF italic THEN "Times-BoldItalic" ELSE "Times-Bold")
          ELSE (IF italic THEN "Times-Italic" ELSE "Times-Roman"))
    [] family = "Courier" ->
         (IF bold THEN (IF italic THEN "Courier-BoldOblique" ELSE "Courier-Bold")
          ELSE (IF italic THEN "Courier-Oblique" ELSE "Courier"))
    [] OTHER ->
         (IF bold THEN (IF italic THEN "Helvetica-BoldOblique" ELSE "Helvetica-Bold")
          ELSE (IF italic THEN "Helvetica-Oblique" ELSE "Helvetica"))

\* the font the selection rule gives block t
RuleFont(t) ==
  FontOfFamily(IF FamilyIncludes[t.fontFamily] \cap {"times", "serif"} # {}
               THEN "Times"
               ELSE IF FamilyIncludes[t.fontFamily] \cap {"courier", "mono"} # {}
               THEN "Courier" ELSE "Helvetica",
               t.fontWeight = "bold", t.fontStyle = "italic")

\* C20 (as stated): the font a patcher draws a block's text with is the
\* standard font of the serif family when fontFamily contains "times" or
\* "serif", else of the monospace family when it contains "courier" or
\* "mono", else of the sans family; the bold variant iff fontWeight is bold
\* and the italic / oblique variant iff fontStyle is italic.
C20_StandardFont ==
  \A i \in 1..Len(ops) :
    ops[i].kind = "text" => ops[i].font = RuleFont(req.editedTexts[ops[i].blk])

\* POST draws with the font of the rule, or with Helvetica when embedding
\* that font raised.
POST_StandardFont ==
  patcher = "POST" =>
    \A i \in 1..Len(ops) :
      ops[i].kind = "text" =>
        ops[i].font \in {RuleFont(req.editedTexts[ops[i].blk]), "Helvetica"}

----------------------------------------------------------------------------
(* One extraction pass: extractText / extractWithPdfJs of PdfTextEditorClean *)
(* (src/unnamed/part_001) and extractTextPositions of PdfTextEditor          *)
(* (src/components/PdfTextEditor.tsx), for a pass that is not cancelled      *)

PageAttempts == 10       \* maxAttempts of the wait for .react-pdf__Page
ReferenceAttempts == 5   \* attempts of the wait for the coordinate reference
LayerAttempts == 10      \* attempts of the wait for the text layer

\* a text item of textContent.items; transform is [a, b, c, d, e, f], or is
\* not there
Matrix(e, f) == [present |-> TRUE, m |-> <<12, 0, 0, 12, e, f>>]
NoTransform == [present |-> FALSE, m |-> <<>>]
PageItem(str, transform) ==
  [str |-> str, transform |-> transform, width |-> 40, height |-> 12]

ItemKinds ==
  { PageItem(<<"H", "e", "l", "l", "o">>, Matrix(10, 770)),
    PageItem(<<"W", "o", "r", "l", "d">>, Matrix(55, 770)),
    PageItem(<<"A", "g", "a", "i", "n">>, Matrix(10, 730)),
    PageItem(<<" ">>, Matrix(75, 770)),
    PageItem(<<"L", "o", "r", "e", "m">>, NoTransform) }

ItemLists == UNION { [1..n -> ItemKinds] : n \in 0..MaxItems }

\* groupTextItems as a whole
groupTextItems(list) ==
  IF Len(list) = 0 THEN <<>>
  ELSE EmitBlocks(AssembleParagraphs(AssembleLines(ArraySort(ReadOrder, list))),
                  Len(list)).grouped

\* extractWithPdfJs: the element pushed for an item with a transform;
\* fontSize = Math.max(scaleX, scaleY) || item.height || 12 and
\* y = viewport.height - pdfY at scale 1.0
CleanElement(item, idCounter) ==
  LET transform == item.transform.m
      scale == MaxOf({Abs(transform[1]), Abs(transform[4])})
      fontSize == IF scale # 0 THEN scale
                  ELSE IF item.height # 0 THEN item.height ELSE 12
  IN  [id |-> <<"text", Digit(idCounter)>>,
       text |-> item.str, originalText |-> item.str,
       x |-> transform[5], y |-> PageSize.height - transform[6],
       width |-> item.width, height |-> fontSize, fontSize |-> RInt(fontSize),
       fontFamily |-> "Arial", fontWeight |-> "normal", fontStyle |-> "normal"]

\* extractText: the element pushed for the span of an item, from the span's
\* rectangle and computed style
SpanElement(item, idCounter) ==
  LET transform == item.transform.m
      actualFontSize == Abs(transform[1])
  IN  [id |-> <<"text", Digit(idCounter)>>,
       text |-> Trim(item.str), originalText |-> Trim(item.str),
       x |-> transform[5],
       y |-> PageSize.height - transform[6] - actualFontSize,
       width |-> item.width, height |-> actualFontSize,
       fontSize |-> RInt(actualFontSize),
       fontFamily |-> "Arial", fontWeight |-> "normal", fontStyle |-> "normal"]

\* for (const span of spans): spans of blank text are skipped
RECURSIVE SpanElementsFrom(_, _, _)
SpanElementsFrom(spans, i, acc) ==
  IF i > Len(spans) THEN acc
  ELSE IF IsBlankText(spans[i].str) THEN SpanElementsFrom(spans, i + 1, acc)
  ELSE SpanElementsFrom(spans, i + 1,
                        Append(acc, SpanElement(spans[i], Len(acc))))

\* the text layer has spans only for a page with items, all of them placed
SpansRendered ==
  /\ Len(pageItems) > 0
  /\ \A i \in DOMAIN pageItems : pageItems[i].transform.present

\* extractTextPositions: the text item pushed for an item when no text layer
\* is there: transform = item.transform || [12, 0, 0, 12, 0, 0], fontSize =
\* (|transform[0]| || |transform[3]| || 12) * scale with scale 1.5, x =
\* transform[4] || 0, y = viewport.height - (transform[5] || 0) - fontSize,
\* and the measured width, 0.6 em a character
PTE_TextItem(item) ==
  LET transform == IF item.transform.present THEN item.transform.m
                   ELSE <<12, 0, 0, 12, 0, 0>>
      matrixFontSize == IF Abs(transform[1]) # 0 THEN Abs(transform[1])
                     ELSE IF Abs(transform[4]) # 0 THEN Abs(transform[4])
                     ELSE 12
      fontSize == (matrixFontSize * 3) \div 2
  IN  [text |-> item.str,
       x |-> transform[5],
       y |-> (PageSize.height * 3) \div 2 - transform[6] - fontSize,
       width |-> (fontSize * Len(item.str) * 3) \div 5,
       height |-> fontSize, fontSize |-> RInt(fontSize),
       fontFamily |-> "Arial", fontWeight |-> "normal", fontStyle |-> "normal"]

ExtractFrame ==
  UNCHANGED <<patchVars, editorVars, saveVars, groupVars, inputVars, normVars, extractor,
              pageItems, loadOk>>

\* getDocument / getPage succeed; extractTextPositions goes on to wait for
\* the page element
PTE_LoadPage ==
  /\ extractor = "PdfTextEditor" /\ xpc = "load"
  /\ loadOk
  /\ xpc' = "pageWait"
  /\ UNCHANGED <<attempt, delays, seen, exhausted, path, itemIdx, pushed, shown,
                 hasResult, extracting, raised>>
  /\ ExtractFrame

\* getDocument or getPage raises: catch (error) { setIsExtracting(false) }
Pass_LoadFails ==
  /\ xpc \in {"load", "fallback"}
  /\ ~loadOk
  /\ raised' = "load"
  /\ extracting' = FALSE
  /\ xpc' = "failed"
  /\ UNCHANGED <<attempt, delays, seen, exhausted, path, itemIdx, pushed, shown,
                 hasResult>>
  /\ ExtractFrame

\* one round of while (attempts < maxAttempts && !isCancelled): the delay,
\* then the query; found: break, else attempts++
PTE_PageAttempt ==
  /\ extractor = "PdfTextEditor" /\ xpc = "pageWait"
  /\ attempt < PageAttempts
  /\ delays' = [delays EXCEPT
                  !.page = Append(@, IF attempt = 0 THEN 500 ELSE 200)]
  /\ \E found \in BOOLEAN :
       IF found THEN xpc' = "referenceWait" /\ attempt' = 0
       ELSE xpc' = xpc /\ attempt' = attempt + 1
  /\ UNCHANGED <<seen, exhausted, path, itemIdx, pushed, shown, hasResult,
                 extracting, raised>>
  /\ ExtractFrame

\* the loop ends without pdfPageRect: setIsExtracting(false); return
PTE_PageGiveUp ==
  /\ extractor = "PdfTextEditor" /\ xpc = "pageWait"
  /\ attempt = PageAttempts
  /\ exhausted' = TRUE
  /\ extracting' = FALSE
  /\ xpc' = "gaveUp"
  /\ UNCHANGED <<attempt, delays, seen, path, itemIdx, pushed, shown,
                 hasResult, raised>>
  /\ ExtractFrame

\* one round of the wait for the coordinate reference
PTE_ReferenceAttempt ==
  /\ extractor = "PdfTextEditor" /\ xpc = "referenceWait"
  /\ attempt < ReferenceAttempts
  /\ delays' = [delays EXCEPT !.reference = Append(@, 300 + attempt * 200)]
  /\ \E found \in BOOLEAN :
       IF found THEN xpc' = "items" /\ attempt' = attempt
       ELSE xpc' = xpc /\ attempt' = attempt + 1
  /\ UNCHANGED <<seen, exhausted, path, itemIdx, pushed, shown, hasResult,
                 extracting, raised>>
  /\ ExtractFrame

\* the loop ends without a coordinate reference: the pass goes on
PTE_ReferenceExhausted ==
  /\ extractor = "PdfTextEditor" /\ xpc = "referenceWait"
  /\ attempt = ReferenceAttempts
  /\ exhausted' = TRUE
  /\ xpc' = "items"
  /\ UNCHANGED <<attempt, delays, seen, path, itemIdx, pushed, shown,
                 hasResult, extracting, raised>>
  /\ ExtractFrame

\* one round of for (attempt < 10): the delay, then the queries; spans found:
\* break
Clean_LayerAttempt ==
  /\ extractor = "PdfTextEditorClean" /\ xpc = "layerWait"
  /\ attempt < LayerAttempts
  /\ delays' = [delays EXCEPT !.layer = Append(@, 300 + attempt * 200)]
  /\ \E s \in {"none", "layer"}
              \cup (IF SpansRendered THEN {"spans"} ELSE {}) :
       /\ seen' = s
       /\ IF s = "spans" THEN xpc' = "spans" /\ attempt' = attempt
          ELSE xpc' = xpc /\ attempt' = attempt + 1
  /\ UNCHANGED <<exhausted, path, itemIdx, pushed, shown, hasResult,
                 extracting, raised>>
  /\ ExtractFrame

\* the loop variant that ends the pass in failure when the loop runs out
Clean_LayerExhausted_Fails ==
  /\ extractor = "PdfTextEditorClean" /\ xpc = "layerWait"
  /\ attempt = LayerAttempts
  /\ exhausted' = TRUE
  /\ raised' = "layer"
  /\ extracting' = FALSE
  /\ xpc' = "failed"
  /\ UNCHANGED <<attempt, delays, seen, path, itemIdx, pushed, shown, hasResult>>
  /\ ExtractFrame

\* the loop ends without spans (no text layer, or one without spans):
\* return extractWithPdfJs()
Clean_LayerExhausted ==
  /\ extractor = "PdfTextEditorClean" /\ xpc = "layerWait"
  /\ attempt = LayerAttempts
  /\ exhausted' = TRUE
  /\ xpc' = "fallback"
  /\ UNCHANGED <<attempt, delays, seen, path, itemIdx, pushed, shown,
                 hasResult, extracting, raised>>
  /\ ExtractFrame

\* the spans are read, grouped and applied
Clean_Measured ==
  /\ extractor = "PdfTextEditorClean" /\ xpc = "spans"
  /\ pushed' = SpanElementsFrom(pageItems, 1, <<>>)
  /\ shown' = groupTextItems(pushed')
  /\ hasResult' = TRUE
  /\ extracting' = FALSE
  /\ path' = "measured"
  /\ xpc' = "done"
  /\ UNCHANGED <<attempt, delays, seen, exhausted, itemIdx, raised>>
  /\ ExtractFrame

\* extractWithPdfJs loads the document and reads the page's text content
Clean_FallbackLoad ==
  /\ extractor = "PdfTextEditorClean" /\ xpc = "fallback"
  /\ loadOk
  /\ path' = "matrix"
  /\ xpc' = "items"
  /\ UNCHANGED <<attempt, delays, seen, exhausted, itemIdx, pushed, shown,
                 hasResult, extracting, raised>>
  /\ ExtractFrame

InItemLoop == xpc = "items" /\ itemIdx <= Len(pageItems)

\* an item whose str is empty or blank is passed over
Item_Skip ==
  /\ InItemLoop
  /\ IsBlankText(pageItems[itemIdx].str)
  /\ itemIdx' = itemIdx + 1
  /\ UNCHANGED <<xpc, attempt, delays, seen, exhausted, path, pushed, shown,
                 hasResult, extracting, raised>>
  /\ ExtractFrame

\* extractWithPdfJs pushes the element of an item
Clean_ItemPush ==
  /\ extractor = "PdfTextEditorClean" /\ InItemLoop
  /\ ~IsBlankText(pageItems[itemIdx].str)
  /\ pageItems[itemIdx].transform.present
  /\ pushed' = Append(pushed, CleanElement(pageItems[itemIdx], Len(pushed)))
  /\ itemIdx' = itemIdx + 1
  /\ UNCHANGED <<xpc, attempt, delays, seen, exhausted, path, shown,
                 hasResult, extracting, raised>>
  /\ ExtractFrame

\* const transform = item.transform; transform[4] raises for an item without
\* transform, into catch (error) { setIsExtracting(false) }
Clean_ItemThrows ==
  /\ extractor = "PdfTextEditorClean" /\ InItemLoop
  /\ ~IsBlankText(pageItems[itemIdx].str)
  /\ ~pageItems[itemIdx].transform.present
  /\ raised' = "item"
  /\ extracting' = FALSE
  /\ xpc' = "failed"
  /\ UNCHANGED <<attempt, delays, seen, exhausted, path, itemIdx, pushed,
                 shown, hasResult>>
  /\ ExtractFrame

\* extractTextPositions pushes the text item of an item
PTE_ItemPush ==
  /\ extractor = "PdfTextEditor" /\ InItemLoop
  /\ ~IsBlankText(pageItems[itemIdx].str)
  /\ pushed' = Append(pushed, PTE_TextItem(pageItems[itemIdx]))
  /\ path' = "matrix"
  /\ itemIdx' = itemIdx + 1
  /\ UNCHANGED <<xpc, attempt, delays, seen, exhausted, shown, hasResult,
                 extracting, raised>>
  /\ ExtractFrame

\* after the loop: groupTextItems(elements), setTextElements,
\* setIsExtracting(false)
Clean_FallbackFinish ==
  /\ extractor = "PdfTextEditorClean" /\ xpc = "items"
  /\ itemIdx > Len(pageItems)
  /\ shown' = groupTextItems(pushed)
  /\ hasResult' = TRUE
  /\ extracting' = FALSE
  /\ xpc' = "done"
  /\ UNCHANGED <<attempt, delays, seen, exhausted, path, itemIdx, pushed,
                 raised>>
  /\ ExtractFrame

\* after the loop: the text items are grouped, setTextElements(elements),
\* setIsExtracting(false)
PTE_Finish ==
  /\ extractor = "PdfTextEditor" /\ xpc = "items"
  /\ itemIdx > Len(pageItems)
  /\ shown' = PTE_Elements(pushed).grouped
  /\ hasResult' = TRUE
  /\ extracting' = FALSE
  /\ path' = "matrix"
  /\ xpc' = "done"
  /\ UNCHANGED <<attempt, delays, seen, exhausted, itemIdx, pushed, raised>>
  /\ ExtractFrame

InitExtract ==
  /\ PatchIdle /\ EditorIdle /\ PageIdle /\ SaveIdle /\ GroupIdle /\ InputIdle
  /\ NormIdle
  /\ extractor \in Editors
  /\ pageItems \in ItemLists
  /\ loadOk \in BOOLEAN
  /\ xpc = IF extractor = "PdfTextEditor" THEN "load" ELSE "layerWait"
  /\ attempt = 0
  /\ delays = NoDelays
  /\ seen = "none"
  /\ exhausted = FALSE
  /\ path = "none"
  /\ itemIdx = 1
  /\ pushed = <<>>
  /\ shown = <<>>
  /\ hasResult = FALSE
  /\ extracting = TRUE
  /\ raised = "none"

NextExtract ==
  \/ PTE_LoadPage
  \/ Pass_LoadFails
  \/ PTE_PageAttempt
  \/ PTE_PageGiveUp
  \/ PTE_ReferenceAttempt
  \/ PTE_ReferenceExhausted
  \/ Clean_LayerAttempt
  \/ Clean_LayerExhausted
  \/ Clean_Measured
  \/ Clean_FallbackLoad
  \/ Item_Skip
  \/ Clean_ItemPush
  \/ Clean_ItemThrows
  \/ PTE_ItemPush
  \/ Clean_FallbackFinish
  \/ PTE_Finish

SpecExtract == InitExtract /\ [][NextExtract]_vars

----------------------------------------------------------------------------
(* Properties of the extraction pass                                       *)

PassEnded == xpc \in {"done", "failed", "gaveUp"}

\* the page has no item with text
NoRuns == \A i \in DOMAIN pageItems : IsBlankText(pageItems[i].str)

\* {!isExtracting && textElements.length === 0 && ...No text found in this
\* page...}
NoTextFound == ~extracting /\ Len(shown) = 0

\* C15: grouping an empty run list returns an empty block list, and the
\* pass of PdfTextEditorClean for a page without runs (of a document that
\* loads) enters no failure path and ends with an empty block list applied,
\* the extracting flag cleared and the 'no text found' state shown.
C15_EmptyPage ==
  /\ groupTextItems(<<>>) = <<>>
  /\ (extractor = "PdfTextEditorClean" /\ NoRuns /\ loadOk) =>
       /\ xpc # "failed" /\ raised = "none"
       /\ xpc = "done" => (hasResult /\ shown = <<>> /\ NoTextFound)

\* C15 witness: the pass for a page of one blank item has ended after the
\* wait for the text layer ran out.
C15_Witness ==
  /\ extractor = "PdfTextEditorClean" /\ NoRuns /\ Len(pageItems) > 0
  /\ exhausted /\ xpc = "done" /\ hasResult

\* C16 (as stated): when a wait for the render surface has run out of
\* attempts, the pass does not end without a result: unless something raised,
\* it ends with the blocks applied, their positions taken from the transform
\* matrix.
C16_DegradeNotFail ==
  exhausted =>
    /\ xpc # "gaveUp"
    /\ (PassEnded /\ raised = "none") => (hasResult /\ path = "matrix")

\* PdfTextEditorClean does degrade to extractWithPdfJs.
Clean_Degrades ==
  (extractor = "PdfTextEditorClean" /\ exhausted) =>
    /\ xpc # "gaveUp"
    /\ (PassEnded /\ raised = "none") => (hasResult /\ path = "matrix")

\* str is part of the text of one of the blocks
Covered(str) ==
  \E k \in DOMAIN shown :
    \E a \in 0..(Len(shown[k].text) - Len(str)) :
      SubSeq(shown[k].text, a + 1, a + Len(str)) = str

\* every run of the page with a transform is in a block, and every run
\* without one is left out or stands at the default size and zero offset
GoodRunsExtracted ==
  \A i \in DOMAIN pageItems :
    ~IsBlankText(pageItems[i].str) =>
      IF pageItems[i].transform.present THEN Covered(pageItems[i].str)
      ELSE \/ ~Covered(pageItems[i].str)
           \/ \E k \in DOMAIN shown : shown[k].x = 0

\* C17 (as stated): a run without transform does not abort the pass: nothing
\* raises out of the per-item loop, and the pass that went through the loop
\* ends with blocks for all the good runs.
C17_BadRunIsolated ==
  /\ raised # "item"
  /\ (xpc = "done" /\ path = "matrix") => GoodRunsExtracted

\* extractTextPositions of PdfTextEditor does isolate a run without transform.
PTE_BadRunIsolated ==
  extractor = "PdfTextEditor" =>
    /\ raised # "item"
    /\ (xpc = "done" /\ path = "matrix") => GoodRunsExtracted

Increasing(seq) == \A i \in 2..Len(seq) : seq[i] > seq[i - 1]

\* C19 (as stated): each wait loop makes at most its fixed number of attempts
\* (10 for the page element, 5 for the coordinate reference, 10 for the text
\* layer), within a loop every delay is strictly greater than the one before,
\* and once something has raised the pass is over (no retry).
C19_BoundedBackoff ==
  /\ Len(delays.page) <= 10
  /\ Len(delays.reference) <= 5
  /\ Len(delays.layer) <= 10
  /\ Increasing(delays.page)
  /\ Increasing(delays.reference)
  /\ Increasing(delays.layer)
  /\ raised # "none" => xpc = "failed"

\* the attempt bounds, the increasing delays of the waits for the coordinate
\* reference and for the text layer, and no retry after something raised
BoundedRetry ==
  /\ Len(delays.page) <= 10
  /\ Len(delays.reference) <= 5
  /\ Len(delays.layer) <= 10
  /\ Increasing(delays.reference)
  /\ Increasing(delays.layer)
  /\ raised # "none" => xpc = "failed"

\* how far the pass is from its end: the stages left, then the attempts left
\* of the wait loop at work or the items left of the per-item loop
StagesLeft ==
  CASE xpc = "load" -> 5
    [] xpc \in {"pageWait", "layerWait"} -> 4
    [] xpc \in {"referenceWait", "fallback"} -> 3
    [] xpc \in {"items", "spans"} -> 2
    [] OTHER -> 0

StepsLeft ==
  StagesLeft * 20
  + (IF xpc \in {"pageWait", "layerWait", "referenceWait"} THEN 10 - attempt
     ELSE IF xpc = "items" THEN Len(pageItems) + 1 - itemIdx ELSE 0)

\* the pass always terminates: every step of it brings it nearer to its end
PassTerminates == [][StepsLeft' < StepsLeft /\ StepsLeft' >= 0]_vars

----------------------------------------------------------------------------
(* The inputs of the rendered block list: EditableTextElement              *)

\* what one keystroke makes of the input's text: a character typed at the
\* end, or the last character deleted
Keystrokes(v) ==
  {Append(v, "x")} \cup (IF Len(v) > 0 THEN {SubSeq(v, 1, Len(v) - 1)} ELSE {})

\* the call onTextChange(id, text) of an input reaches handleTextChange of the
\* component: setTextElements(prev.map(...)), and the notification that
\* follows the new block list
Input_OnTextChange(id, text) ==
  LET updated == handleTextChange(textElements, id, text)
  IN  /\ textElements' = updated
      /\ timers' = Scheduled(editor, timers, updated)
      /\ textChangedRef' = IF editor = "PdfTextEditor" THEN TRUE
                           ELSE textChangedRef
      /\ lastCall' = [made |-> TRUE, id |-> id, text |-> text]
      /\ edits' = edits + 1

InputFrame ==
  UNCHANGED <<editor, pdfFile, currentPage, effectGen, cancelled,
              resizePending, layout, passes, isExtracting, dom, editedTexts,
              applied, extracted, patchVars, saveVars, groupVars, extractVars,
              normVars>>

\* handleFocus of the input of block k; the browser has one focused element
Input_Focus(k) ==
  /\ pc = "idle"
  /\ \A j \in DOMAIN isFocused : ~isFocused[j]
  /\ isFocused' = [isFocused EXCEPT ![k] = TRUE]
  /\ UNCHANGED <<value, keystrokes, commits, textElements, timers,
                 textChangedRef, lastCall, edits>>
  /\ InputFrame

\* handleChange of PdfTextEditor's input: setValue(newValue) and nothing else
PTE_InputChange(k) ==
  /\ pc = "idle" /\ editor = "PdfTextEditor"
  /\ isFocused[k] /\ keystrokes < MaxKeys
  /\ \E newValue \in Keystrokes(value[k]) :
       value' = [value EXCEPT ![k] = newValue]
  /\ keystrokes' = keystrokes + 1
  /\ UNCHANGED <<isFocused, commits, textElements, timers, textChangedRef,
                 lastCall, edits>>
  /\ InputFrame

\* handleChange of PdfTextEditorClean's input: setValue(newValue);
\* onTextChange(element.id, newValue); the effect on [element.text,
\* element.id] then sets value to the element's new text
Clean_InputChange(k) ==
  /\ pc = "idle" /\ editor = "PdfTextEditorClean"
  /\ isFocused[k] /\ keystrokes < MaxKeys
  /\ \E newValue \in Keystrokes(value[k]) :
       /\ Input_OnTextChange(textElements[k].id, newValue)
       /\ value' = [value EXCEPT ![k] = newValue]
  /\ keystrokes' = keystrokes + 1
  /\ UNCHANGED <<isFocused, commits>>
  /\ InputFrame

\* handleBlur of PdfTextEditor's input (also reached by Escape, which blurs):
\* setIsFocused(false); onTextChangeRef.current(element.id, value)
PTE_InputBlur(k) ==
  /\ pc = "idle" /\ editor = "PdfTextEditor"
  /\ isFocused[k] /\ commits < MaxCommits
  /\ isFocused' = [isFocused EXCEPT ![k] = FALSE]
  /\ Input_OnTextChange(textElements[k].id, value[k])
  /\ commits' = commits + 1
  /\ UNCHANGED <<value, keystrokes>>
  /\ InputFrame

\* handleBlur of PdfTextEditorClean's input: setIsFocused(false)
Clean_InputBlur(k) ==
  /\ pc = "idle" /\ editor = "PdfTextEditorClean"
  /\ isFocused[k] /\ commits < MaxCommits
  /\ isFocused' = [isFocused EXCEPT ![k] = FALSE]
  /\ commits' = commits + 1
  /\ UNCHANGED <<value, keystrokes, textElements, timers, textChangedRef,
                 lastCall, edits>>
  /\ InputFrame

\* the block list of a page has just been extracted and rendered: one input
\* per block, none focused, each showing its block's text; the notification
\* of the extraction is pending
InitInput ==
  /\ PatchIdle
  /\ SaveIdle
  /\ GroupIdle
  /\ ExtractIdle
  /\ NormIdle
  /\ editor \in Editors
  /\ pdfFile = "A"
  /\ currentPage \in 1..NumPages
  /\ effectGen = 1
  /\ layout = 0
  /\ cancelled = {}
  /\ resizePending = FALSE
  /\ passes = <<EndedPass>>
  /\ textElements = PageBlocks(editor, pdfFile, currentPage, 0)
  /\ isExtracting = FALSE
  /\ textChangedRef = (editor = "PdfTextEditor")
  /\ timers = Scheduled(editor, {}, textElements)
  /\ dom = [file |-> pdfFile, page |-> currentPage]
  /\ editedTexts = <<>>
  /\ applied = [pass |-> 1, file |-> pdfFile, page |-> currentPage,
                reqFile |-> pdfFile, reqPage |-> currentPage,
                atFile |-> pdfFile, atPage |-> currentPage,
                superseded |-> FALSE]
  /\ extracted = textElements
  /\ lastCall = NoCall
  /\ edits = 0
  /\ isFocused = [k \in DOMAIN textElements |-> FALSE]
  /\ value = [k \in DOMAIN textElements |-> textElements[k].text]
  /\ keystrokes = 0
  /\ commits = 0

NextInput ==
  \/ \E k \in DOMAIN textElements : Input_Focus(k)
  \/ \E k \in DOMAIN textElements : PTE_InputChange(k)
  \/ \E k \in DOMAIN textElements : Clean_InputChange(k)
  \/ \E k \in DOMAIN textElements : PTE_InputBlur(k)
  \/ \E k \in DOMAIN textElements : Clean_InputBlur(k)
  \/ TimerFire

SpecInput == InitInput /\ [][NextInput]_vars

----------------------------------------------------------------------------
(* Properties of the inputs                                                *)

\* a step schedules an onTextChange notification
Notifies == ~(timers' \subseteq timers)

\* the step changes the block list, or schedules a notification, only when it
\* is a loss of focus; a keystroke does neither
CommitOnly ==
  /\ (textElements' # textElements \/ Notifies) => commits' # commits
  /\ keystrokes' # keystrokes => (textElements' = textElements /\ ~Notifies)

\* C18: edits are applied on commit, not per keystroke: the block list and
\* the parent notification change only on a loss of focus; between focus and
\* commit, keystrokes in a block leave the block list unchanged and trigger
\* no onTextChange notification
C18_CommitOnly == [][CommitOnly]_vars

\* in PdfTextEditor the block list and the notification change only on a
\* loss of focus
PTE_CommitOnly == [][editor = "PdfTextEditor" => CommitOnly]_vars

\* in PdfTextEditorClean every keystroke is a call of handleTextChange: the
\* text of the block follows the input, and a loss of focus changes nothing
Clean_PerKeystroke ==
  [][editor = "PdfTextEditorClean" =>
       /\ keystrokes' # keystrokes =>
            (edits' = edits + 1 /\ textElements' # textElements)
       /\ commits' # commits => textElements' = textElements]_vars

\* in PdfTextEditorClean the text of each block is the text of its input
Clean_TextFollowsInput ==
  editor = "PdfTextEditorClean" =>
    \A k \in DOMAIN textElements : textElements[k].text = value[k]

----------------------------------------------------------------------------
(* Properties of the font cache                                            *)

\* the (family, weight, style) triple of block k of the request
Triple(k) ==
  <<req.editedTexts[k].fontFamily, req.editedTexts[k].fontWeight,
    req.editedTexts[k].fontStyle>>

KeyOf(k) == FontKey(Triple(k)[1], Triple(k)[2], Triple(k)[3])

\* block k reaches the call of getOrEmbedFont: it has a text that is not blank
AsksFont(k) ==
  /\ req.editedTexts[k].hasText
  /\ ~IsBlankText(req.editedTexts[k].text)

\* the blocks the loop is done with
Processed == 1..(idx - 1)

\* the cache holds one entry per embedding that succeeded, i.e. no triple was
\* embedded twice; its keys are keys of blocks that asked for a font; two
\* blocks have the same key exactly when they have the same triple; a drawn
\* text has the font the cache holds for its triple; and before the loop of
\* an operation the cache is empty
CacheRule ==
  patcher = "POST" =>
    /\ Len(embedded) = Cardinality(DOMAIN fontCache)
    /\ \A key \in DOMAIN fontCache :
         \E k \in Processed : AsksFont(k) /\ KeyOf(k) = key
    /\ \A j, k \in DOMAIN req.editedTexts :
         (KeyOf(j) = KeyOf(k)) <=> (Triple(j) = Triple(k))
    /\ \A n \in DOMAIN ops :
         ops[n].kind = "text" =>
           /\ KeyOf(ops[n].blk) \in DOMAIN fontCache
           /\ ops[n].font = fontCache[KeyOf(ops[n].blk)]
    /\ pc \in {"start", "load", "page"} => fontCache = <<>>

\* the block the loop is at finds the font of its triple in the cache
\* whenever an earlier block with the same triple asked for it
LaterBlockFindsFont ==
  (patcher = "POST" /\ InBlockLoop /\ AsksFont(idx)) =>
    \A k \in Processed :
      (AsksFont(k) /\ Triple(k) = Triple(idx)) => KeyOf(idx) \in DOMAIN fontCache

\* the same, for the blocks whose text was drawn or whose failure was in
\* drawText: the embedding, or its Helvetica fallback, succeeded for them
LaterBlockFindsEmbeddedFont ==
  (patcher = "POST" /\ InBlockLoop /\ AsksFont(idx)) =>
    \A k \in Processed :
      (AsksFont(k) /\ Triple(k) = Triple(idx)
       /\ \E n \in DOMAIN ops : ops[n].kind = "text" /\ ops[n].blk = k)
        => KeyOf(idx) \in DOMAIN fontCache

\* C21 (as the code has it): within one patch operation a triple whose
\* embedding, or Helvetica fallback, succeeded is embedded once and every
\* later block with the triple gets the cached font; different triples have
\* different cache entries; the cache is empty when the operation starts
C21_FontCache == CacheRule /\ LaterBlockFindsEmbeddedFont

\* C21 (as stated): the embedding service is invoked for a triple only the
\* first time a block with it is drawn, every later block with the triple
\* reuses the cached handle
C21_Original == CacheRule /\ LaterBlockFindsFont

\* two blocks with the same triple have been drawn with one embedding
C21_Witness ==
  /\ patcher = "POST" /\ pc = "done" /\ result.status = "success"
  /\ Len(req.editedTexts) = 2
  /\ Triple(1) = Triple(2)
  /\ Len(embedded) = 1
  /\ Cardinality({n \in DOMAIN ops : ops[n].kind = "text"}) = 2

----------------------------------------------------------------------------
(* One text item made into a run: the per-item iteration of                 *)
(* extractTextPositions (PdfTextEditor.tsx), of extractWithPdfJs and the    *)
(* per-span iteration of extractText (part_001)                             *)

\* an item of textContent.items with transform [a, 0, 0, d, e, f]
TextItem(a, d, e, f, height) ==
  [str |-> <<"H", "i">>, present |-> TRUE, a |-> a, d |-> d, e |-> e, f |-> f,
   width |-> 40, height |-> height]

\* an item without transform
BareItem ==
  [str |-> <<"H", "i">>, present |-> FALSE, a |-> 0, d |-> 0, e |-> 0, f |-> 0,
   width |-> 40, height |-> 10]

RawItems ==
  { TextItem(a, d, e, f, h) :
      a \in {0, 9, 12}, d \in {0, 12, -12}, e \in {0, 72}, f \in {0, 700},
      h \in {0, 10} }
  \cup {BareItem}

\* the span of the text layer whose text is the item's: its rectangle
\* relative to the page element and the font size of its computed style
SpanBoxes ==
  { NoSpan,
    [present |-> TRUE, left |-> 108, top |-> 120, width |-> 20, height |-> 18,
     fontSize |-> 18],
    [present |-> TRUE, left |-> 72, top |-> 76, width |-> 15, height |-> 14,
     fontSize |-> 12] }

\* scale of page.getViewport: 1.5 in extractTextPositions, 1.0 in
\* extractWithPdfJs
ViewportScale(comp) == IF comp = "PdfTextEditor" THEN <<3, 2>> ELSE <<1, 1>>

\* viewport.height
ViewportHeight(comp) == RMul(RInt(PageSize.height), ViewportScale(comp))

\* extractTextPositions: transform = item.transform || [12, 0, 0, 12, 0, 0];
\* item.__actualFontSize is not set on an item getTextContent has just
\* returned, so fontSize = (|transform[0]| || |transform[3]| || 12) * scale
PTE_FontSize(it) ==
  LET a == IF it.present THEN it.a ELSE 12
      d == IF it.present THEN it.d ELSE 12
      pdfSize == IF Abs(a) # 0 THEN Abs(a) ELSE IF Abs(d) # 0 THEN Abs(d) ELSE 12
  IN  RMul(RInt(pdfSize), ViewportScale("PdfTextEditor"))

\* extractTextPositions, one item: fontSize is computed first; with a
\* matching span x, y, width and height are the span's (and
\* item.__actualFontSize is set, after fontSize was read); without one
\* x = transform[4] || 0, y = viewport.height - pdfY - fontSize, width the
\* text's width at 0.6 em a character, height = fontSize
PTE_Run(it, sp) ==
  LET fontSize == PTE_FontSize(it)
      pdfX == IF it.present THEN it.e ELSE 0
      pdfY == IF it.present THEN it.f ELSE 0
  IN  IF sp.present
      THEN [from |-> "measured", x |-> RInt(sp.left), y |-> RInt(sp.top),
            width |-> RInt(sp.width), height |-> RInt(sp.height),
            fontSize |-> fontSize]
      ELSE [from |-> "matrix", x |-> RInt(pdfX),
            y |-> RSub(RSub(ViewportHeight("PdfTextEditor"), RInt(pdfY)), fontSize),
            width |-> RMul(RMul(fontSize, RInt(Len(it.str))), <<3, 5>>),
            height |-> fontSize, fontSize |-> fontSize]

\* extractText, one span: everything from the span's rectangle and style
Clean_SpanRunOf(sp) ==
  [from |-> "measured", x |-> RInt(sp.left), y |-> RInt(sp.top),
   width |-> RInt(sp.width), height |-> RInt(sp.height),
   fontSize |-> RInt(sp.fontSize)]

\* extractWithPdfJs, one item: fontSize = Math.max(scaleX, scaleY) ||
\* item.height || 12, x = transform[4], y = viewport.height - pdfY
Clean_ItemRunOf(it) ==
  LET scale == MaxOf({Abs(it.a), Abs(it.d)})
      fontSize == IF scale # 0 THEN scale
                  ELSE IF it.height # 0 THEN it.height ELSE 12
  IN  [from |-> "matrix", x |-> RInt(it.e),
       y |-> RSub(ViewportHeight("PdfTextEditorClean"), RInt(it.f)),
       width |-> RInt(it.width), height |-> RInt(fontSize),
       fontSize |-> RInt(fontSize)]

NormFrame ==
  UNCHANGED <<patchVars, editorVars, saveVars, groupVars, extractVars, inputVars,
              normalizer, rawItem, spanBox>>

\* extractTextPositions pushes the run of the item
PTE_ItemRun ==
  /\ normalizer = "PdfTextEditor" /\ npc = "start"
  /\ normRun' = PTE_Run(rawItem, spanBox)
  /\ npc' = "done"
  /\ NormFrame

\* extractText pushes the run of the span: the text layer has spans
Clean_SpanRun ==
  /\ normalizer = "PdfTextEditorClean" /\ npc = "start"
  /\ spanBox.present
  /\ normRun' = Clean_SpanRunOf(spanBox)
  /\ npc' = "done"
  /\ NormFrame

\* extractWithPdfJs pushes the run of the item: no span was found
Clean_ItemRun ==
  /\ normalizer = "PdfTextEditorClean" /\ npc = "start"
  /\ ~spanBox.present /\ rawItem.present
  /\ normRun' = Clean_ItemRunOf(rawItem)
  /\ npc' = "done"
  /\ NormFrame

\* extractWithPdfJs: transform[4] of an item without transform raises
Clean_ItemRaises ==
  /\ normalizer = "PdfTextEditorClean" /\ npc = "start"
  /\ ~spanBox.present /\ ~rawItem.present
  /\ npc' = "failed"
  /\ UNCHANGED normRun
  /\ NormFrame

InitNorm ==
  /\ PatchIdle /\ EditorIdle /\ PageIdle /\ SaveIdle
  /\ GroupIdle /\ ExtractIdle /\ InputIdle
  /\ normalizer \in Editors
  /\ rawItem \in RawItems
  /\ spanBox \in SpanBoxes
  /\ npc = "start"
  /\ normRun = NoRun

NextNorm ==
  \/ PTE_ItemRun
  \/ Clean_SpanRun
  \/ Clean_ItemRun
  \/ Clean_ItemRaises

SpecNorm == InitNorm /\ [][NextNorm]_vars

----------------------------------------------------------------------------
(* Properties of the runs                                                  *)

\* the run has the position and the size of the measured box
MeasuredBox ==
  /\ normRun.x = RInt(spanBox.left) /\ normRun.y = RInt(spanBox.top)
  /\ normRun.width = RInt(spanBox.width)
  /\ normRun.height = RInt(spanBox.height)

\* C22: whenever a measured box matching the run's text is available, the
\* run's x, y, width, height and fontSize are all the measured values; the
\* matrix formula is used only when no measured box matches
C22_MeasuredBeatsMatrix ==
  npc = "done" =>
    IF spanBox.present
    THEN MeasuredBox /\ normRun.fontSize = RInt(spanBox.fontSize)
    ELSE normRun.from = "matrix"

\* what holds of both components: position, width and height are the
\* measured ones; PdfTextEditorClean also takes the measured font size
MeasuredPosition ==
  npc = "done" =>
    IF spanBox.present
    THEN /\ MeasuredBox
         /\ normalizer = "PdfTextEditorClean" =>
              normRun.fontSize = RInt(spanBox.fontSize)
    ELSE normRun.from = "matrix"

\* max(|a|, |d|), or the fallback size when that is 0
RuleFontSize ==
  LET m == MaxOf({Abs(rawItem.a), Abs(rawItem.d)})
  IN  IF m # 0 THEN RInt(m)
      ELSE IF normalizer = "PdfTextEditorClean" /\ rawItem.height # 0
      THEN RInt(rawItem.height) ELSE RInt(12)

\* C23: when no measured box is used, a run with transform [a,b,c,d,e,f] on
\* a page of native height H at render scale s gets fontSize = max(|a|,|d|)
\* (or the fallback size), x = e*s and y = (H - f)*s - fontSize
C23_MatrixNormalization ==
  (npc = "done" /\ normRun.from = "matrix" /\ rawItem.present) =>
    /\ normRun.fontSize = RuleFontSize
    /\ normRun.x = RMul(RInt(rawItem.e), ViewportScale(normalizer))
    /\ normRun.y = RSub(RMul(RInt(PageSize.height - rawItem.f),
                             ViewportScale(normalizer)),
                        normRun.fontSize)

\* what holds: extractWithPdfJs has the rule's font size and x (its scale is
\* 1), and y is the baseline, H - f
Clean_MatrixRun ==
  (npc = "done" /\ normRun.from = "matrix" /\ rawItem.present
   /\ normalizer = "PdfTextEditorClean") =>
    /\ normRun.fontSize = RuleFontSize
    /\ normRun.x = RMul(RInt(rawItem.e), ViewportScale(normalizer))
    /\ normRun.y = RInt(PageSize.height - rawItem.f)

----------------------------------------------------------------------------
(* The grouping of the runs of a page: three runs, on close rows, in two    *)
(* columns and a far one, in two fonts                                       *)

PageRunXs == {10, 55, 171}
PageRunYs == {10, 17, 24}
PageRunFonts ==
  { [fontFamily |-> "Arial", fontWeight |-> "normal", fontStyle |-> "normal"],
    [fontFamily |-> "Times", fontWeight |-> "bold", fontStyle |-> "italic"] }

PageRunShapes == [x : PageRunXs, y : PageRunYs, font : PageRunFonts]

\* the i-th extracted run (i from 0) of a page: 12px text, 40 wide, the one
\* of the far column 100 wide
PageRun(i, shape) ==
  [id |-> <<"text", Digit(i)>>,
   text |-> RunText(shape.x), originalText |-> RunText(shape.x),
   x |-> shape.x, y |-> shape.y,
   width |-> IF shape.x = 171 THEN 100 ELSE 40, height |-> 12,
   fontSize |-> RInt(12),
   fontFamily |-> shape.font.fontFamily, fontWeight |-> shape.font.fontWeight,
   fontStyle |-> shape.font.fontStyle]

PageRunLists ==
  UNION { { [i \in 1..n |-> PageRun(i - 1, f[i])] : f \in [1..n -> PageRunShapes] } :
          n \in 0..MaxPageRuns }

InitPageGroup ==
  /\ PatchIdle /\ EditorIdle /\ PageIdle /\ SaveIdle
  /\ ExtractIdle /\ InputIdle /\ NormIdle
  /\ grouper \in {"groupTextItems", "extractTextPositions"}
  /\ runs \in PageRunLists
  /\ lines = <<>>
  /\ paragraphs = <<>>
  /\ blocks = <<>>
  /\ blockRuns = <<>>
  /\ gpc = "start"

SpecPageGroup == InitPageGroup /\ [][NextGroup]_vars

----------------------------------------------------------------------------
(* Properties of the lines                                                 *)

\* line assembly has run
LinesAssembled ==
  grouper = "groupTextItems" /\ gpc \in {"lines", "paragraphs", "done"}

\* the runs of the lines, line after line
RECURSIVE Flatten(_)
Flatten(seqs) == IF seqs = <<>> THEN <<>> ELSE Head(seqs) \o Flatten(Tail(seqs))

\* |y_a - y_b| < lineThreshold
CloseInY(a, b) == RLt(RInt(Abs(a.y - b.y)), lineThreshold(runs))

\* C24: after line assembly two runs are in the same line iff their y values
\* differ by less than lineThreshold = max(0.4 * average font size, 8); in
\* particular every pair of runs of one line differs in y by less than it
C24_SameLine ==
  LinesAssembled =>
    \A i, j \in DOMAIN runs :
      (HolderOf(lines, runs[i].id) = HolderOf(lines, runs[j].id))
        <=> CloseInY(runs[i], runs[j])

\* C24 (as the code has it): the lines are the runs in sorted order, cut
\* where a run differs in y from the run before it by lineThreshold or more:
\* a run is in the line of the run before it iff the two differ by less
C24_AdjacentSameLine ==
  LinesAssembled =>
    LET sorted == Flatten(lines)
    IN  /\ sorted = ArraySort(ReadOrder, runs)
        /\ \A k \in 2..Len(sorted) :
             (HolderOf(lines, sorted[k].id) = HolderOf(lines, sorted[k - 1].id))
               <=> CloseInY(sorted[k - 1], sorted[k])

\* a line holds two runs that differ in y by lineThreshold or more, joined by
\* a run between them
C24_Witness ==
  /\ LinesAssembled
  /\ \E k \in DOMAIN lines :
       /\ Len(lines[k]) = 3
       /\ CloseInY(lines[k][1], lines[k][2])
       /\ CloseInY(lines[k][2], lines[k][3])
       /\ ~CloseInY(lines[k][1], lines[k][3])

\* C25: line assembly yields lines ordered top-to-bottom, and within every
\* line the runs are in non-decreasing x order, for every run list and order
C25_LineOrder ==
  LinesAssembled =>
    /\ \A k \in 1..(Len(lines) - 1) : TopOf(lines[k]) <= TopOf(lines[k + 1])
    /\ \A k \in DOMAIN lines :
         \A i \in 1..(Len(lines[k]) - 1) : lines[k][i].x <= lines[k][i + 1].x

\* what holds: within a line, two consecutive runs at most 5 apart in y are
\* in non-decreasing x order, and the others in increasing y order
LineOrderWithin5 ==
  LinesAssembled =>
    \A k \in DOMAIN lines :
      \A i \in 1..(Len(lines[k]) - 1) :
        IF Abs(lines[k][i].y - lines[k][i + 1].y) <= 5
        THEN lines[k][i].x <= lines[k][i + 1].x
        ELSE lines[k][i].y < lines[k][i + 1].y

----------------------------------------------------------------------------
(* Properties of the blocks                                                *)

IdsOf(items) == { items[i].id : i \in DOMAIN items }

\* the blocks made of runs of the paragraph
BlocksOf(paragraph) ==
  { b \in DOMAIN blocks : blockRuns[b] # <<>>
                          /\ IdsOf(blockRuns[b]) \subseteq IdsOf(paragraph) }

\* the bounding-box width of the runs exceeds 3 times their mean width
TooWide(items) ==
  (RightOf(items) - LeftOf(items)) * Len(items) > 3 * SumWidth(items, Len(items))

\* C26: an assembled paragraph of two or more runs whose bounding-box width
\* exceeds 3 times the mean width of its runs is emitted as one single-run
\* block per run, each equal to the run; a paragraph whose width does not
\* exceed that bound is emitted as exactly one block; hence every multi-run
\* block has width <= 3 * the mean width of its runs
C26_WidthValve ==
  GroupDone("groupTextItems") =>
    /\ \A k \in DOMAIN paragraphs :
         IF Len(paragraphs[k]) >= 2 /\ TooWide(paragraphs[k])
         THEN /\ Cardinality(BlocksOf(paragraphs[k])) = Len(paragraphs[k])
              /\ \A b \in BlocksOf(paragraphs[k]) :
                   /\ Len(blockRuns[b]) = 1
                   /\ blocks[b] = blockRuns[b][1]
                   /\ \E i \in DOMAIN paragraphs[k] : blocks[b] = paragraphs[k][i]
         ELSE /\ Cardinality(BlocksOf(paragraphs[k])) = 1
              /\ \A b \in BlocksOf(paragraphs[k]) :
                   IdsOf(blockRuns[b]) = IdsOf(paragraphs[k])
    /\ \A b \in DOMAIN blocks :
         Len(blockRuns[b]) >= 2 =>
           /\ ~TooWide(blockRuns[b])
           /\ blocks[b].width * Len(blockRuns[b])
                <= 3 * SumWidth(blockRuns[b], Len(blockRuns[b]))

\* a paragraph of three runs, too wide, has been emitted as three blocks
C26_Witness ==
  /\ GroupDone("groupTextItems")
  /\ Len(paragraphs) = 1 /\ Len(paragraphs[1]) = 3
  /\ TooWide(paragraphs[1])
  /\ Len(blocks) = 3

\* v occurs among the values at least as often as any other value
IsMode(v, values) ==
  /\ \E i \in DOMAIN values : values[i] = v
  /\ \A i \in DOMAIN values : CountOf(values, v) >= CountOf(values, values[i])

\* C27: for every multi-run block of groupTextItems, fontFamily, fontWeight
\* and fontStyle are each a value that occurs among the member runs at least
\* as often as any other; a single-run paragraph is emitted as the run itself
C27_StyleMode ==
  GroupDone("groupTextItems") =>
    /\ \A b \in DOMAIN blocks :
         Len(blockRuns[b]) >= 2 =>
           LET members == blockRuns[b]
           IN  /\ IsMode(blocks[b].fontFamily,
                         [i \in DOMAIN members |-> members[i].fontFamily])
               /\ IsMode(blocks[b].fontWeight,
                         [i \in DOMAIN members |-> members[i].fontWeight])
               /\ IsMode(blocks[b].fontStyle,
                         [i \in DOMAIN members |-> members[i].fontStyle])
    /\ \A k \in DOMAIN paragraphs :
         Len(paragraphs[k]) = 1 =>
           \E b \in DOMAIN blocks : blocks[b] = paragraphs[k][1]

\* a block of three runs whose first run has the rarer font
C27_Witness ==
  /\ GroupDone("groupTextItems")
  /\ \E b \in DOMAIN blocks :
       /\ Len(blockRuns[b]) = 3
       /\ blockRuns[b][1].fontFamily = "Arial"
       /\ blockRuns[b][2].fontFamily = "Times"
       /\ blockRuns[b][3].fontFamily = "Times"
       /\ blocks[b].fontFamily = "Times"

\* t occurs in s
Occurs(t, s) ==
  \E i \in 1..(Len(s) - Len(t) + 1) : SubSeq(s, i, i + Len(t) - 1) = t

\* C28: each input run is a member of exactly one output block, each run's
\* text occurs in its block's text, and there are at most as many blocks as
\* runs
C28_RunConservation ==
  gpc = "done" =>
    /\ \A i \in DOMAIN runs :
         /\ Cardinality({ b \in DOMAIN blocks :
                            runs[i].id \in IdsOf(blockRuns[b]) }) = 1
         /\ \A b \in DOMAIN blocks :
              runs[i].id \in IdsOf(blockRuns[b]) =>
                /\ runs[i] \in { blockRuns[b][k] : k \in DOMAIN blockRuns[b] }
                /\ Occurs(runs[i].text, blocks[b].text)
    /\ \A b \in DOMAIN blocks :
         Cardinality(IdsOf(blockRuns[b])) = Len(blockRuns[b])
    /\ Len(blocks) <= Len(runs)
    /\ Len(blockRuns) = Len(blocks)

\* three runs have been grouped into two blocks
C28_Witness ==
  /\ gpc = "done"
  /\ Len(runs) = 3 /\ Len(blocks) = 2
  /\ \E b \in DOMAIN blocks : Len(blockRuns[b]) = 2

----------------------------------------------------------------------------
(* Properties of the order of the drawing operations                       *)

\* the open intervals (lo1, hi1) and (lo2, hi2) meet
Meet(lo1, hi1, lo2, hi2) == RLt(lo1, hi2) /\ RLt(lo2, hi1)

\* the cover rectangle drawn for block k, if one was
CoverOf(k) ==
  { ops[n] : n \in { i \in DOMAIN ops : ops[i].kind = "rect" /\ ops[i].blk = k } }

\* the rectangle overlaps the drawn text: the text stands on its baseline y,
\* is `size` high and as wide as the box of its block
Erases(rect, text) ==
  /\ Meet(rect.y, RAdd(rect.y, rect.height), text.y, RAdd(text.y, text.size))
  /\ \E own \in CoverOf(text.blk) :
       Meet(rect.x, RAdd(rect.x, rect.width), own.x, RAdd(own.x, own.width))

\* C29: within one patch operation no cover rectangle is drawn after a
\* block's replacement text in a position that overlaps that text, for every
\* block list, also those whose block boxes overlap
C29_TextNotErased ==
  \A n, m \in DOMAIN ops :
    (ops[n].kind = "text" /\ ~IsBlankText(ops[n].text)
     /\ ops[m].kind = "rect" /\ n < m)
      => ~Erases(ops[m], ops[n])

\* the boxes of blocks j and k of the request overlap
BoxesOverlap(j, k) ==
  LET s == req.editedTexts[j]
      t == req.editedTexts[k]
  IN  /\ s.x < t.x + t.width /\ t.x < s.x + s.width
      /\ s.y < t.y + t.height /\ t.y < s.y + s.height

\* what holds: the text of a block is drawn after the block's own cover, and
\* a later cover overlaps a drawn text only when the two blocks' boxes overlap
ErasedOnlyByOverlappingBlock ==
  \A n, m \in DOMAIN ops :
    /\ (ops[n].kind = "text" /\ ops[m].kind = "rect" /\ ops[m].blk = ops[n].blk)
         => m < n
    /\ (ops[n].kind = "text" /\ ~IsBlankText(ops[n].text)
        /\ ops[m].kind = "rect" /\ n < m /\ Erases(ops[m], ops[n]))
         => BoxesOverlap(ops[n].blk, ops[m].blk)

----------------------------------------------------------------------------
(* The page in edit mode: src/app/page.tsx mounts PdfTextEditorClean with   *)
(* onTextChange = setEditedTexts(formattedTexts), the page buttons call    *)
(* setCurrentPage, the save button calls handleSave. The behaviour is      *)
(* followed up to the answer of the patch service.                         *)

InitPageSave ==
  /\ PatchIdle
  /\ CompIdle
  /\ editor = "PdfTextEditorClean"
  /\ pdfFile = "A"
  /\ currentPage \in 1..NumPages
  /\ effectGen = 0
  /\ layout = 0
  /\ cancelled = {}
  /\ resizePending = FALSE
  /\ passes = <<>>
  /\ textElements = <<>>
  /\ isExtracting = TRUE
  /\ textChangedRef = FALSE
  /\ timers = {}
  /\ dom = NoDom
  /\ editedTexts = <<>>
  /\ applied = NoApplied
  /\ extracted = <<>>
  /\ lastCall = NoCall
  /\ edits = 0
  /\ pdfDoc = LoadedDoc
  /\ editMode = TRUE
  /\ canvasInstance = NoCanvas
  /\ savePc = "idle"
  /\ saveBranch = "none"
  /\ received = NoDoc
  /\ docBefore = NoDoc
  /\ fileBefore = "none"
  /\ saves = 0
  /\ sentReq = NoRequest

NextPageSave ==
  \/ Mount
  \/ ChangePage
  \/ DomRender
  \/ \E i \in DOMAIN passes : Clean_LayerFound(i)
  \/ \E i \in DOMAIN passes : Clean_LayerTimeout(i)
  \/ \E i \in DOMAIN passes : Clean_Apply(i)
  \/ \E i \in DOMAIN passes : Clean_FallbackApply(i)
  \/ \E i \in DOMAIN passes : PassFails(i)
  \/ HandleTextChange
  \/ TimerFire
  \/ Save_Start
  \/ Edit_Serialize
  \/ Edit_Fetch
  \/ Plain_Save

SpecPageSave == InitPageSave /\ [][NextPageSave]_vars

\* block b was produced by an extraction of page p of file f
ExtractedFrom(f, p, b) == \E k \in 0..1 : b.originalText = ExtractedText(f, p, k)

\* C30: whenever an edit-mode save issues a patch request, the blocks it
\* sends were extracted from the same file and from the page whose number is
\* sent as pageNumber, whatever the order of page changes, extraction
\* completions, notifications and the save
C30_SentBlocksOfSentPage ==
  sentReq.made =>
    \A k \in DOMAIN sentReq.editedTexts :
      ExtractedFrom(fileBefore, sentReq.pageNumber, sentReq.editedTexts[k])

\* what the page does keep: the blocks sent were all extracted from one page
\* of the file, a page that has been shown
SentBlocksOfSomePage ==
  sentReq.made =>
    \E p \in 1..NumPages :
      \A k \in DOMAIN sentReq.editedTexts :
        ExtractedFrom(fileBefore, p, sentReq.editedTexts[k])

\* the blocks of page 1, extracted and notified while page 1 was shown, are
\* sent with page number 2 after the page button was pressed
StaleBlocksSent ==
  /\ sentReq.made /\ sentReq.pageNumber = 2
  /\ applied.pass = 1 /\ applied.page = 1 /\ applied.atPage = 1
  /\ \A k \in DOMAIN sentReq.editedTexts :
       ExtractedFrom(fileBefore, 1, sentReq.editedTexts[k])

====
